---------------------------- MODULE Spec2Model ----------------------------
(***************************************************************************)
(* Model of the timetable constraint compiler (src/timetable_solver.py).   *)
(*                                                                         *)
(* solve_timetable builds a CP-SAT model (boolean variables y, occ,        *)
(* occ_subj, occ_subj_teacher and linear constraints over them) and hands  *)
(* it to the solver.  The solver is a black box: a solved status comes     *)
(* with ANY assignment of the variables that satisfies every constraint    *)
(* that was added; INFEASIBLE is returned only when there is none; UNKNOWN *)
(* may be returned for any model (time budget).                            *)
(*                                                                         *)
(* A boolean variable family is represented by the set of its keys whose   *)
(* value is 1.  Day and period names are represented by their indices in   *)
(* calendar.days / calendar.periods (day_to_idx, period_to_idx).           *)
(***************************************************************************)
EXTENDS Integers, FiniteSets, Sequences, TLC

\* ------------------------------------------------------------------ bounds
NumDays == 2
NumPeriods == 2
MaxPeriodsPerWeek == 3
\* how many units above their least values the excess variables of a solution
\* that is not proved optimal are followed
MaxExcessSlack == 1

Days == 0 .. (NumDays - 1)
Periods == 0 .. (NumPeriods - 1)
Slots == Days \X Periods
num_slots == NumDays * NumPeriods

Teachers == {"T1", "T2"}

\* ------------------------------------------------------------ small helpers
B(b) == IF b THEN 1 ELSE 0

RECURSIVE SumOver(_, _)
\* sum(f[k] for k in S)
SumOver(f, S) ==
  IF S = {} THEN 0
  ELSE LET k == CHOOSE x \in S : TRUE IN f[k] + SumOver(f, S \ {k})

Range(seq) == {seq[i] : i \in 1 .. Len(seq)}

\* dict.get(k): the set {f[k]} when k is a key, {} (None) otherwise
Get(f, k) == IF k \in DOMAIN f THEN {f[k]} ELSE {}

RECURSIVE UnionChoices(_, _)
\* every union of one element of ch[k] per key k of ks
UnionChoices(ch, ks) ==
  IF ks = {} THEN {{}}
  ELSE LET k == CHOOSE x \in ks : TRUE
           rest == UnionChoices(ch, ks \ {k})
       IN {x \cup r : x \in ch[k], r \in rest}

\* ------------------------------------------------------------- spec model
\* FixedSessionSpec: period, optional day, optional duration ({} is None)
FixedSessionSpec(period, day, duration) ==
  [period |-> period, day |-> day, duration |-> duration]

\* SubjectSpec
SubjectSpec(teachers, mode, ppw, minc, maxc, tags, allowed, fixed) ==
  [teachers |-> teachers, teaching_mode |-> mode, periods_per_week |-> ppw,
   min_contiguous_periods |-> minc, max_contiguous_periods |-> maxc,
   tags |-> tags, allowed_starts |-> allowed, fixed_sessions |-> fixed]

\* ClassSemesterSpec: subjects keyed by their (unique) name
ClassSemesterSpec(subjects, blocked) ==
  [subjects |-> subjects, blocked_periods |-> blocked]

Subj(inp, c, s) == inp.specs[c].subjects[s]
ClassesOf(inp) == DOMAIN inp.specs
SubjectsOf(inp, c) == DOMAIN inp.specs[c].subjects
ClassSubjects(inp) ==
  UNION {{<<c, s>> : s \in SubjectsOf(inp, c)} : c \in ClassesOf(inp)}

\* teachers = sorted({t for cs in specs for subj in cs.subjects for t in subj.teachers})
teachers(inp) == UNION {Subj(inp, cs[1], cs[2]).teachers : cs \in ClassSubjects(inp)}

\* (subj.teaching_mode or "any_of").lower()
mode(subj) == IF subj.teaching_mode = "all_of" THEN "all_of" ELSE "any_of"

\* mutant: the range starts at 1, not at min_contiguous_periods
Durations_UpToMax(subj) == 1 .. subj.max_contiguous_periods

\* range(subj.min_contiguous_periods, subj.max_contiguous_periods + 1)
Durations(subj) == subj.min_contiguous_periods .. subj.max_contiguous_periods

\* ------------------------------------------------------- decision variables
\* keys of y created for one subject: one per (day, start, duration) with the
\* duration in the subject's contiguous range and start + dur <= num_periods
YKeysOfDay(inp, c, s, d) ==
  UNION {{<<c, s, d, start, dur>> :
            start \in {p \in Periods : p + dur <= NumPeriods}} :
         dur \in Durations(Subj(inp, c, s))}

YKeysOf(inp, c, s) == UNION {YKeysOfDay(inp, c, s, d) : d \in Days}

\* the chosen start variables of one subject, and of one subject on one day
StartsOf(a, c, s) == {k \in a.y : k[1] = c /\ k[2] = s}
StartsOfDay(a, c, s, d) == {k \in a.y : k[1] = c /\ k[2] = s /\ k[3] = d}

\* an assignment of the model's boolean variables: the keys whose value is 1
Assignment(y, occ_subj, occ, occ_subj_teacher) ==
  [y |-> y, occ_subj |-> occ_subj, occ |-> occ,
   occ_subj_teacher |-> occ_subj_teacher]

NoAssignment == Assignment({}, {}, {}, {})

\* sum(dur * y[key] for key in keys)
SumDur(ys) == SumOver([k \in ys |-> k[5]], ys)

\* ------------------------------------------------------------ configuration errors
\* mutant: only the weekly load of each class is checked against the calendar
SanityError_LoadOnly(inp) ==
  \E c \in ClassesOf(inp) :
     SumOver([s \in SubjectsOf(inp, c) |-> Subj(inp, c, s).periods_per_week],
             SubjectsOf(inp, c)) > num_slots

\* sanity checks made before any constraint is added
SanityError(inp) ==
  \E c \in ClassesOf(inp) :
     \/ SumOver([s \in SubjectsOf(inp, c) |-> Subj(inp, c, s).periods_per_week],
                SubjectsOf(inp, c)) > num_slots
     \/ \E s \in SubjectsOf(inp, c) :
           \/ Subj(inp, c, s).min_contiguous_periods > NumPeriods
           \/ Subj(inp, c, s).max_contiguous_periods > NumPeriods
           \/ Subj(inp, c, s).periods_per_week < Subj(inp, c, s).min_contiguous_periods
           \/ ~ \E start \in Periods, dur \in Durations(Subj(inp, c, s)) :
                   start + dur <= NumPeriods

\* required_min = min_classes_per_week_by_class.get(class_name, min_classes_per_week)
required_min(inp, c) ==
  IF c \in DOMAIN inp.min_classes_per_week_by_class
    THEN {inp.min_classes_per_week_by_class[c]}
    ELSE inp.min_classes_per_week

MinClassesError(inp) ==
  \E c \in ClassesOf(inp) : \E m \in required_min(inp, c) : m > num_slots

\* days_to_consider of a fixed session
days_to_consider(fs) == IF fs.day = {} THEN Days ELSE fs.day

\* the start variables a fixed session ranges over
FixedCandidates(inp, c, s, fs) ==
  {k \in YKeysOf(inp, c, s) :
     /\ k[3] \in days_to_consider(fs)
     /\ k[4] = fs.period
     /\ k[5] \in (IF fs.duration # {} THEN fs.duration
                                     ELSE Durations(Subj(inp, c, s)))}

\* mutant: only a fixed session without any candidate at all is rejected
FixedSessionError_NoCandidateOnly(inp, c, s, fs) ==
  {k \in YKeysOf(inp, c, s) : k[3] \in days_to_consider(fs) /\ k[4] = fs.period} = {}

FixedSessionError(inp, c, s, fs) ==
  \/ \E dur \in fs.duration :
        \/ dur < Subj(inp, c, s).min_contiguous_periods
        \/ dur > Subj(inp, c, s).max_contiguous_periods
        \/ fs.period + dur > NumPeriods
  \/ FixedCandidates(inp, c, s, fs) = {}

FixedSessionsError(inp) ==
  \E cs \in ClassSubjects(inp) :
     \E fs \in Range(Subj(inp, cs[1], cs[2]).fixed_sessions) :
        FixedSessionError(inp, cs[1], cs[2], fs)

\* solve_timetable raises ValueError instead of returning a status
ConfigError(inp, flags) ==
  \/ SanityError(inp)
  \/ flags.enable_min_classes_per_week /\ MinClassesError(inp)
  \/ flags.enable_placement_constraints /\ FixedSessionsError(inp)

\* ------------------------------------------------------------ hard constraints
\* Each operator is one constraint family of solve_timetable, stated for one
\* index of its loop over an assignment a of the variables.

\* mutant: the per-class override is ignored, only the global minimum counts
MinClassesPerWeek_GlobalOnly(inp, a, c) ==
  \A m \in inp.min_classes_per_week : Cardinality({k \in a.occ : k[1] = c}) >= m

\* required_min <= sum(occ[c, d, p])             (enable_min_classes_per_week)
MinClassesPerWeek(inp, a, c) ==
  \A m \in required_min(inp, c) : Cardinality({k \in a.occ : k[1] = c}) >= m

\* mutant: only a block STARTING at a blocked (day, period) is forbidden
BlockedPeriods_StartsOnly(inp, a, c) ==
  \A dp \in inp.specs[c].blocked_periods :
     \A k \in a.y : ~ (k[1] = c /\ k[3] = dp[1] /\ k[4] = dp[2])

\* occ[c, d, p] == 0 for each blocked (day, period)   (enable_placement_constraints)
BlockedPeriods(inp, a, c) ==
  \A dp \in inp.specs[c].blocked_periods : <<c, dp[1], dp[2]>> \notin a.occ

\* mutant: the weekly load is a minimum (>=) instead of an equality
ExactWeeklyLoad_AtLeast(inp, a, c, s) ==
  SumDur(StartsOf(a, c, s)) >= Subj(inp, c, s).periods_per_week

\* sum(dur * y[c, s, d, start, dur]) == periods_per_week
ExactWeeklyLoad(inp, a, c, s) ==
  SumDur(StartsOf(a, c, s)) = Subj(inp, c, s).periods_per_week

\* mutant: only the starts of the shortest duration are restricted
AllowedStarts_MinDurationOnly(inp, a, c, s) ==
  LET allowed_set == Subj(inp, c, s).allowed_starts
  IN allowed_set # {} =>
       \A k \in YKeysOf(inp, c, s) :
          (<<k[3], k[4]>> \notin allowed_set
             /\ k[5] = Subj(inp, c, s).min_contiguous_periods) => k \notin a.y

\* y[key] == 0 for every start outside a non-empty allowed_starts
AllowedStarts(inp, a, c, s) ==
  LET allowed_set == Subj(inp, c, s).allowed_starts
  IN allowed_set # {} =>
       \A k \in YKeysOf(inp, c, s) : <<k[3], k[4]>> \notin allowed_set => k \notin a.y

\* mutant: sum(candidates) >= 1
FixedSessions_AtLeastOne(inp, a, c, s) ==
  \A fs \in Range(Subj(inp, c, s).fixed_sessions) :
     Cardinality(FixedCandidates(inp, c, s, fs) \cap a.y) >= 1

\* sum(candidates) == 1 for each fixed session
FixedSessions(inp, a, c, s) ==
  \A fs \in Range(Subj(inp, c, s).fixed_sessions) :
     Cardinality(FixedCandidates(inp, c, s, fs) \cap a.y) = 1

\* subjects_by_tag.setdefault(tag, []).append(subj): one entry per occurrence of
\* the tag in subj.tags
TagCount(subj, tag) == Cardinality({i \in 1 .. Len(subj.tags) : subj.tags[i] = tag})

\* mutant: the cap is applied to each tagged subject on its own, not to the sum
\* over the tagged subjects of the class
TagLimits_PerSubject(inp, a, c) ==
  \A tag \in DOMAIN inp.max_periods_per_day_by_tag :
     \A s \in SubjectsOf(inp, c), d \in Days :
        TagCount(Subj(inp, c, s), tag)
          * Cardinality({p \in Periods : <<c, s, d, p>> \in a.occ_subj})
          <= inp.max_periods_per_day_by_tag[tag]

\* sum(occ_subj[c, subj, d, p] for subj in tagged_subjects for p) <= limit
TagLimits(inp, a, c) ==
  \A tag \in DOMAIN inp.max_periods_per_day_by_tag :
     (\E s \in SubjectsOf(inp, c) : TagCount(Subj(inp, c, s), tag) > 0) =>
        \A d \in Days :
           SumOver([s \in SubjectsOf(inp, c) |->
                      TagCount(Subj(inp, c, s), tag)
                        * Cardinality({p \in Periods : <<c, s, d, p>> \in a.occ_subj})],
                   SubjectsOf(inp, c))
             <= inp.max_periods_per_day_by_tag[tag]

\* the start variables of (c, s, d) whose block covers period p
covering_starts(a, c, s, d, p) ==
  {k \in a.y : k[1] = c /\ k[2] = s /\ k[3] = d /\ k[4] <= p /\ p < k[4] + k[5]}

\* mutant: occ_subj is 1 when SOME covering start is chosen (an OR, not a sum)
LinkOccSubj_AnyCover(inp, a, c, s, d, p) ==
  (<<c, s, d, p>> \in a.occ_subj) <=> (covering_starts(a, c, s, d, p) # {})

\* occ_subj[c, s, d, p] == sum(covering_starts), a boolean variable
LinkOccSubj(inp, a, c, s, d, p) ==
  B(<<c, s, d, p>> \in a.occ_subj)
    = Cardinality(covering_starts(a, c, s, d, p))

\* mutant: occ is 1 when SOME subject occupies the slot; the <= 1 is missing
ClassNonOverlap_OccOnly(inp, a, c, d, p) ==
  (<<c, d, p>> \in a.occ) <=> (\E s \in SubjectsOf(inp, c) : <<c, s, d, p>> \in a.occ_subj)

\* sum(occ_subj[c, *, d, p]) <= 1 and occ[c, d, p] == sum(occ_subj[c, *, d, p])
ClassNonOverlap(inp, a, c, d, p) ==
  LET n == Cardinality({s \in SubjectsOf(inp, c) : <<c, s, d, p>> \in a.occ_subj})
  IN n <= 1 /\ B(<<c, d, p>> \in a.occ) = n

\* mutant: any_of adds sum(tvars) <= occ_subj, so an occupied slot may have no teacher
TeacherLink_AtMostOne(inp, a, c, s, d, p) ==
  LET subj == Subj(inp, c, s)
      tvars == {t \in subj.teachers : <<c, s, t, d, p>> \in a.occ_subj_teacher}
      os == B(<<c, s, d, p>> \in a.occ_subj)
  IN IF mode(subj) = "all_of"
       THEN \A t \in subj.teachers : B(t \in tvars) = os
       ELSE Cardinality(tvars) <= os

\* mutant: the all_of link is added in both teaching modes
TeacherLink_AllTeach(inp, a, c, s, d, p) ==
  \A t \in Subj(inp, c, s).teachers :
     (<<c, s, t, d, p>> \in a.occ_subj_teacher) <=> (<<c, s, d, p>> \in a.occ_subj)

\* all_of: tv == occ_subj for every listed teacher; any_of: sum(tvars) == occ_subj
TeacherLink(inp, a, c, s, d, p) ==
  LET subj == Subj(inp, c, s)
      tvars == {t \in subj.teachers : <<c, s, t, d, p>> \in a.occ_subj_teacher}
      os == B(<<c, s, d, p>> \in a.occ_subj)
  IN IF mode(subj) = "all_of"
       THEN \A t \in subj.teachers : B(t \in tvars) = os
       ELSE Cardinality(tvars) = os

\* mutant: the sum is taken over every teacher, not only over t
TeacherNoOverlap_AnyTeacher(inp, a, t, d, p) ==
  Cardinality({k \in a.occ_subj_teacher : k[4] = d /\ k[5] = p}) <= 1

\* mutant: the sum is taken per class, not over all classes
TeacherNoOverlap_PerClass(inp, a, t, d, p) ==
  \A c \in ClassesOf(inp) :
     Cardinality({k \in a.occ_subj_teacher :
                    k[1] = c /\ k[3] = t /\ k[4] = d /\ k[5] = p}) <= 1

\* sum(occ_subj_teacher[*, *, t, d, p]) <= 1
TeacherNoOverlap(inp, a, t, d, p) ==
  Cardinality({k \in a.occ_subj_teacher : k[3] = t /\ k[4] = d /\ k[5] = p}) <= 1

\* mutant: "if tmax:" instead of "if tmax is not None:", a cap of 0 is skipped
TeacherConstraints_TruthyCap(inp, a, t) ==
  /\ \A tmax \in Get(inp.teacher_max_periods_per_week, t) :
        tmax # 0 => Cardinality({k \in a.occ_subj_teacher : k[3] = t}) <= tmax
  /\ \A unavail \in Get(inp.teacher_unavailable_periods, t) :
        \A dp \in unavail :
           {k \in a.occ_subj_teacher : k[3] = t /\ k[4] = dp[1] /\ k[5] = dp[2]} = {}

\* weekly cap and unavailable periods of teacher t   (enable_teacher_constraints)
TeacherConstraints(inp, a, t) ==
  /\ \A tmax \in Get(inp.teacher_max_periods_per_week, t) :
        Cardinality({k \in a.occ_subj_teacher : k[3] = t}) <= tmax
  /\ \A unavail \in Get(inp.teacher_unavailable_periods, t) :
        \A dp \in unavail :
           {k \in a.occ_subj_teacher : k[3] = t /\ k[4] = dp[1] /\ k[5] = dp[2]} = {}

\* the variables that exist (NewBoolVar): every key of a is one of them
OccSubjKeys(inp) ==
  {<<cs[1], cs[2], dp[1], dp[2]>> : cs \in ClassSubjects(inp), dp \in Slots}

\* k is the key of a variable of the class and subject it names
IsKey(inp, k) == k[1] \in ClassesOf(inp) /\ k[2] \in SubjectsOf(inp, k[1])

Variables(inp, a) ==
  /\ \A k \in a.y :
        /\ IsKey(inp, k) /\ k[3] \in Days /\ k[4] \in Periods
        /\ k[5] \in Durations(Subj(inp, k[1], k[2])) /\ k[4] + k[5] <= NumPeriods
  /\ \A k \in a.occ_subj : IsKey(inp, k) /\ <<k[3], k[4]>> \in Slots
  /\ \A k \in a.occ : k[1] \in ClassesOf(inp) /\ <<k[2], k[3]>> \in Slots
  /\ \A k \in a.occ_subj_teacher :
        /\ IsKey(inp, k) /\ k[3] \in Subj(inp, k[1], k[2]).teachers
        /\ <<k[4], k[5]>> \in Slots

\* constraints over the start variables of one subject alone
SubjectConstraints(inp, flags, a, c, s) ==
  /\ ExactWeeklyLoad(inp, a, c, s)
  /\ flags.enable_placement_constraints =>
       AllowedStarts(inp, a, c, s) /\ FixedSessions(inp, a, c, s)

\* constraints over the variables of one class alone
ClassConstraints(inp, flags, a, c) ==
  /\ \A dp \in Slots : ClassNonOverlap(inp, a, c, dp[1], dp[2])
  /\ flags.enable_min_classes_per_week => MinClassesPerWeek(inp, a, c)
  /\ flags.enable_placement_constraints => BlockedPeriods(inp, a, c)
  /\ flags.enable_tag_limits => TagLimits(inp, a, c)

\* the compiled model: every constraint solve_timetable adds under flags
Constraints(inp, flags, a) ==
  /\ Variables(inp, a)
  /\ \A cs \in ClassSubjects(inp) :
        /\ SubjectConstraints(inp, flags, a, cs[1], cs[2])
        /\ \A dp \in Slots :
              /\ LinkOccSubj(inp, a, cs[1], cs[2], dp[1], dp[2])
              /\ TeacherLink(inp, a, cs[1], cs[2], dp[1], dp[2])
  /\ \A c \in ClassesOf(inp) : ClassConstraints(inp, flags, a, c)
  /\ \A t \in teachers(inp) :
        /\ \A dp \in Slots : TeacherNoOverlap(inp, a, t, dp[1], dp[2])
        /\ flags.enable_teacher_constraints => TeacherConstraints(inp, a, t)

\* ------------------------------------------------------------------ objective
w_subject_daily == 10
w_teacher_pref == 1

\* day_count: the number of starts of subject s of class c on day d
day_count(inp, a, c, s, d) == Cardinality(StartsOfDay(a, c, s, d))

\* the least value of excess: excess >= day_count - 1 and excess >= 0
excess(inp, a, c, s, d) ==
  IF day_count(inp, a, c, s, d) > 1 THEN day_count(inp, a, c, s, d) - 1 ELSE 0

\* teacher_occ variables: one per teacher with preferred periods and per slot
\* whose period is outside them; the set of those whose value is 1
penalties_teacher_preference(inp, flags, a) ==
  IF flags.enable_teacher_preferences
    THEN {tdp \in teachers(inp) \X Days \X Periods :
            /\ \E preferred \in Get(inp.teacher_preferred_periods, tdp[1]) :
                  preferred # {} /\ tdp[3] \notin preferred
            /\ \E k \in a.occ_subj_teacher :
                  k[3] = tdp[1] /\ k[4] = tdp[2] /\ k[5] = tdp[3]}
    ELSE {}

\* mutant: day_count is declared boolean
PenaltyVariables_DayCountBoolean(inp, flags, a) ==
  \A cs \in ClassSubjects(inp), d \in Days :
     day_count(inp, a, cs[1], cs[2], d) \in 0 .. 1

\* the penalty variables have values in their declared domains: day_count and
\* excess in 0 .. num_periods, teacher_occ boolean and equal to the sum of the
\* teacher's occupancy variables of the slot
PenaltyVariables(inp, flags, a) ==
  /\ \A cs \in ClassSubjects(inp), d \in Days :
        /\ day_count(inp, a, cs[1], cs[2], d) \in 0 .. NumPeriods
        /\ excess(inp, a, cs[1], cs[2], d) \in 0 .. NumPeriods
  /\ flags.enable_teacher_preferences =>
       \A t \in teachers(inp), d \in Days, p \in Periods :
          (\E preferred \in Get(inp.teacher_preferred_periods, t) :
              preferred # {} /\ p \notin preferred)
            => Cardinality({k \in a.occ_subj_teacher :
                              k[3] = t /\ k[4] = d /\ k[5] = p}) \in {0, 1}

\* how far the excess variables can lie above their least values, in total
ExcessSlack(inp, a) ==
  SumOver([csd \in ClassSubjects(inp) \X Days |->
             NumPeriods - excess(inp, a, csd[1][1], csd[1][2], csd[2])],
          ClassSubjects(inp) \X Days)

\* the least objective value the assignment a of the hard variables admits
\* mutant: both weights are 1
Objective_UnitWeights(inp, flags, a) ==
  SumOver([csd \in ClassSubjects(inp) \X Days |->
             excess(inp, a, csd[1][1], csd[1][2], csd[2])],
          ClassSubjects(inp) \X Days)
  + Cardinality(penalties_teacher_preference(inp, flags, a))

Objective(inp, flags, a) ==
  w_subject_daily
     * SumOver([csd \in ClassSubjects(inp) \X Days |->
                  excess(inp, a, csd[1][1], csd[1][2], csd[2])],
               ClassSubjects(inp) \X Days)
  + w_teacher_pref * Cardinality(penalties_teacher_preference(inp, flags, a))

\* --------------------------------------------------------------------- solver
\* The search space is explored family by family.  occ_subj and occ are fixed
\* by equalities to sums of other variables, so the only candidate value of
\* such a variable is 1 when its sum is positive (a chosen block covers the
\* slot) and 0 otherwise; whether that value satisfies the equality is decided
\* by the constraint itself, and every candidate is finally checked against
\* the whole compiled model.

PropagateOccSubj(inp, y, keys) ==
  keys \cap UNION {{<<k[1], k[2], k[3], p>> : p \in k[4] .. (k[4] + k[5] - 1)} : k \in y}

PropagateOcc(occ_subj) == {<<k[1], k[3], k[4]>> : k \in occ_subj}

Propagate(inp, y, keys) ==
  LET occ_subj == PropagateOccSubj(inp, y, keys)
  IN Assignment(y, occ_subj, PropagateOcc(occ_subj), {})

\* start variables of one subject on one day, consistent with the occ_subj link
DayStarts(inp, c, s, d) ==
  LET keys == {<<c, s, d, p>> : p \in Periods}
  IN {yd \in SUBSET YKeysOfDay(inp, c, s, d) :
        \A p \in Periods : LinkOccSubj(inp, Propagate(inp, yd, keys), c, s, d, p)}

\* start variables of one subject, consistent with the subject's constraints
SubjectStarts(inp, flags, c, s) ==
  {y \in UnionChoices([d \in Days |-> DayStarts(inp, c, s, d)], Days) :
     SubjectConstraints(inp, flags, Assignment(y, {}, {}, {}), c, s)}

\* start variables of one class, consistent with the class's constraints
ClassStarts(inp, flags, c) ==
  LET keys == {k \in OccSubjKeys(inp) : k[1] = c}
  IN {y \in UnionChoices([s \in SubjectsOf(inp, c) |-> SubjectStarts(inp, flags, c, s)],
                         SubjectsOf(inp, c)) :
        ClassConstraints(inp, flags, Propagate(inp, y, keys), c)}

\* The teaching-mode link of one (class, subject, day, period) reads only the
\* variables of that index: the sets of teachers it admits at a slot of subject
\* (c, s) whose occ_subj has the value os
TeacherSets(inp, c, s, os) ==
  LET d == CHOOSE x \in Days : TRUE
      p == CHOOSE x \in Periods : TRUE
  IN {ts \in SUBSET Subj(inp, c, s).teachers :
        TeacherLink(inp,
                    Assignment({}, IF os THEN {<<c, s, d, p>>} ELSE {}, {},
                               {<<c, s, t, d, p>> : t \in ts}),
                    c, s, d, p)}

TeacherTable(inp) ==
  {<<cs[1], cs[2], os, TeacherSets(inp, cs[1], cs[2], os)>> :
     cs \in ClassSubjects(inp), os \in BOOLEAN}

\* values of the teacher variables of one (class, subject, day, period),
\* consistent with the teaching-mode link
TeacherChoices(table, a, k) ==
  LET e == CHOOSE x \in table :
                x[1] = k[1] /\ x[2] = k[2] /\ x[3] = (k \in a.occ_subj)
  IN {{<<k[1], k[2], t, k[3], k[4]>> : t \in ts} : ts \in e[4]}

WithTeachers(table, keys, a) ==
  LET open == {k \in keys : TeacherChoices(table, a, k) # {{}}}
  IN {[a EXCEPT !.occ_subj_teacher = ost] :
        ost \in UnionChoices([k \in open |-> TeacherChoices(table, a, k)], open)}

\* the assignments the search visits
Candidates(inp, flags) ==
  LET ys == UnionChoices([c \in ClassesOf(inp) |-> ClassStarts(inp, flags, c)],
                         ClassesOf(inp))
      keys == OccSubjKeys(inp)
      table == TeacherTable(inp)
  IN UNION {WithTeachers(table, keys, Propagate(inp, y, keys)) : y \in ys}

\* every assignment that satisfies the hard constraints
HardSolutions(inp, flags) ==
  {a \in Candidates(inp, flags) : Constraints(inp, flags, a)}

\* every assignment that satisfies the compiled model: the hard constraints
\* and the constraints that define the penalty variables
Solutions(inp, flags) ==
  {a \in Candidates(inp, flags) :
     Constraints(inp, flags, a) /\ PenaltyVariables(inp, flags, a)}

\* solver.ObjectiveValue() of a solution: the excess variables are bounded
\* from below only, so any value from the least one up to the one with every
\* excess at num_periods (followed up to MaxExcessSlack units)
ObjectiveValues(inp, flags, a) ==
  {Objective(inp, flags, a) + w_subject_daily * k :
     k \in {x \in 0 .. MaxExcessSlack : x <= ExcessSlack(inp, a)}}

\* the compiled model has a solution
Feasible(inp, flags) ==
  LET keys == OccSubjKeys(inp)
      table == TeacherTable(inp)
  IN \E y \in UnionChoices([c \in ClassesOf(inp) |-> ClassStarts(inp, flags, c)],
                           ClassesOf(inp)) :
        \E a \in WithTeachers(table, keys, Propagate(inp, y, keys)) :
           Constraints(inp, flags, a) /\ PenaltyVariables(inp, flags, a)

\* the solutions a proof of optimality can come with
OptimalSolutions(inp, flags, sols) ==
  IF sols = {} THEN {}
  ELSE LET valued == {<<Objective(inp, flags, a), a>> : a \in sols}
           vals == {va[1] : va \in valued}
           best == CHOOSE v \in vals : \A w \in vals : v <= w
       IN {va[2] : va \in {x \in valued : x[1] = best}}

\* --------------------------------------------------------------------- inputs
EmptyMap == <<>>

TimetableInput(specs, min_cpw, min_by_class, tag_max, t_max, t_unavail, t_pref) ==
  [specs |-> specs,
   min_classes_per_week |-> min_cpw,
   min_classes_per_week_by_class |-> min_by_class,
   max_periods_per_day_by_tag |-> tag_max,
   teacher_max_periods_per_week |-> t_max,
   teacher_unavailable_periods |-> t_unavail,
   teacher_preferred_periods |-> t_pref]

\* a subject without tags and without placement constraints
Plain(ts, m, ppw, minc, maxc) == SubjectSpec(ts, m, ppw, minc, maxc, <<>>, {}, <<>>)

Unconstrained(specs) ==
  TimetableInput(specs, {}, EmptyMap, EmptyMap, EmptyMap, EmptyMap, EmptyMap)

Modes == {"any_of", "all_of"}

\* (periods_per_week, min_contiguous_periods, max_contiguous_periods) accepted
\* by the schema: min <= max and periods_per_week >= min
Loads ==
  {l \in (1 .. MaxPeriodsPerWeek) \X (1 .. NumPeriods) \X (1 .. NumPeriods) :
     l[2] <= l[3] /\ l[1] >= l[2]}

\* one class, two subjects: every load and contiguous range
LoadInputs ==
  {Unconstrained(
     "c1" :> ClassSemesterSpec(
               ("s1" :> Plain({"T1"}, "any_of", l[1], l[2], l[3]))
                 @@ ("s2" :> Plain({"T2"}, "any_of", 1, 1, 1)), {})) :
   l \in Loads}

\* two classes whose subjects share teachers, in both teaching modes
SharedTeacherInputs ==
  {Unconstrained(
     ("c1" :> ClassSemesterSpec(
                "s1" :> Plain({"T1", "T2"}, m1, l1[1], 1, l1[2]), {}))
       @@ ("c2" :> ClassSemesterSpec("s1" :> Plain(t2, m2, 1, 1, 1), {}))) :
   m1 \in Modes, l1 \in {<<1, 1>>, <<2, 2>>}, m2 \in Modes,
   t2 \in {{"T1"}, {"T1", "T2"}}}

\* two classes in single periods whose loads together exceed the slots of the
\* week, taught by the same teacher or by two
FullLoadInputs ==
  {Unconstrained(
     ("c1" :> ClassSemesterSpec("s1" :> Plain({"T1"}, "any_of", num_slots - 1, 1, 1), {}))
       @@ ("c2" :> ClassSemesterSpec("s1" :> Plain({t2}, "any_of", 2, 1, 1), {}))) :
   t2 \in Teachers}

\* teacher weekly caps (0 included) and unavailable periods
TeacherLimitInputs ==
  {TimetableInput(
     ("c1" :> ClassSemesterSpec("s1" :> Plain({"T1", "T2"}, m1, 2, 1, 2), {}))
       @@ ("c2" :> ClassSemesterSpec("s1" :> Plain({"T1"}, "any_of", 1, 1, 1), {})),
     {}, EmptyMap, EmptyMap, lim[1], lim[2], EmptyMap) :
   m1 \in Modes,
   lim \in ({EmptyMap} \cup {"T1" :> cap : cap \in 0 .. 2} \cup {"T2" :> 0})
             \X {EmptyMap}
           \cup {EmptyMap}
                \X {"T1" :> {}, "T1" :> {<<0, 0>>}, "T2" :> {<<0, 1>>, <<1, 1>>}}
           \cup {<<"T1" :> 2, "T2" :> {<<0, 1>>, <<1, 1>>}>>}}

\* fixed sessions of subject s1: none, fully specified, day omitted, duration
\* omitted, both omitted, and two that match no start variable
FixedChoices ==
  {<<>>,
   <<FixedSessionSpec(0, {0}, {2})>>,
   <<FixedSessionSpec(0, {}, {1})>>,
   <<FixedSessionSpec(1, {1}, {})>>,
   <<FixedSessionSpec(0, {}, {})>>,
   <<FixedSessionSpec(1, {0}, {NumPeriods})>>,
   <<FixedSessionSpec(0, {0}, {NumPeriods + 1})>>}

AllowedChoices == {{}, {<<0, 0>>}, {<<0, 0>>, <<1, 0>>, <<1, 1>>}}

BlockedChoices == {{}, {<<0, 1>>}, {<<0, 0>>, <<1, 0>>}}

\* one class with blocked periods, allowed starts and fixed sessions
PlacementInputs ==
  {Unconstrained(
     "c1" :> ClassSemesterSpec(
               ("s1" :> SubjectSpec({"T1"}, "any_of", 2, 1, 2, <<>>, allowed, fixed))
                 @@ ("s2" :> Plain({"T2"}, "any_of", 1, 1, 1)), blocked)) :
   allowed \in AllowedChoices, fixed \in FixedChoices, blocked \in BlockedChoices}

\* tag caps, minimum loads and teacher preferences
OptionalGroupInputs ==
  {TimetableInput(
     "c1" :> ClassSemesterSpec(
               ("s1" :> SubjectSpec({"T1"}, "any_of", 2, 1, 2, g[1], {}, <<>>))
                 @@ ("s2" :> SubjectSpec({"T2"}, "any_of", 1, 1, 1, <<"lab">>, {}, <<>>)),
               {}),
     g[2], g[3], g[4], EmptyMap, EmptyMap, g[5]) :
   g \in {x \in {<<>>, <<"lab">>} \X {{}, {3}, {num_slots + 1}}
                  \X {EmptyMap, "c1" :> 4, "c1" :> 3} \X {EmptyMap, "lab" :> 1}
                  \X {EmptyMap, "T1" :> {0}} :
            \* one group at a time, and all of them together
            \/ x[2] = {} /\ x[3] = EmptyMap
            \/ x[1] = <<>> /\ x[4] = EmptyMap /\ x[5] = EmptyMap
            \/ x[1] # <<>> /\ x[4] # EmptyMap /\ x[5] # EmptyMap}}

\* two classes with subjects of the same tag under a daily cap on the tag,
\* the tagged subject of the first in single periods or in one block of 2
TagLimitInputs ==
  {TimetableInput(
     ("c1" :> ClassSemesterSpec(
                "s1" :> SubjectSpec({"T1"}, "any_of", 2, k, k, <<"lab">>, {}, <<>>),
                {}))
       @@ ("c2" :> ClassSemesterSpec(
                "s1" :> SubjectSpec({"T2"}, "any_of", 1, 1, 1, t2, {}, <<>>), {})),
     {}, by_class, "lab" :> lim, EmptyMap, EmptyMap, EmptyMap) :
   t2 \in {<<>>, <<"lab">>}, lim \in {1, 2}, k \in {1, 2},
   by_class \in {EmptyMap, "c1" :> 2}}

\* inputs the sanity checks reject
SanityErrorInputs ==
  {Unconstrained(
     "c1" :> ClassSemesterSpec(
               ("s1" :> Plain({"T1"}, "any_of", l[1], l[2], l[3]))
                 @@ ("s2" :> Plain({"T2"}, "any_of", 1, 1, 1)), {})) :
   l \in {<<num_slots, 1, 1>>, <<2, 1, NumPeriods + 1>>, <<1, 2, 2>>}}

\* one class under a daily cap on a tag that its first subject lists once or
\* twice (the schema strips the tags and keeps repetitions)
DuplicateTagInputs ==
  {TimetableInput(
     "c1" :> ClassSemesterSpec(
               ("s1" :> SubjectSpec({"T1"}, "any_of", l[1], l[2], l[3], tags, {}, <<>>))
                 @@ ("s2" :> Plain({"T2"}, "any_of", 1, 1, 1)), {}),
     {}, EmptyMap, "lab" :> lim, EmptyMap, EmptyMap, EmptyMap) :
   l \in {x \in Loads : x[1] <= 2}, tags \in {<<"lab">>, <<"lab", "lab">>},
   lim \in {1, 2}}

\* the teachers who teach one subject together
CoTeachers ==
  {"P01", "P02", "P03", "P04", "P05", "P06", "P07", "P08", "P09", "P10", "P11"}

\* one class: s1 (two single periods, allowed to start anywhere but the last
\* slot of day 1) and s2 (one period, not in the first slot of day 0) taught
\* by co-teachers who all prefer period 0
PriorityInputs ==
  {TimetableInput(
     "c1" :> ClassSemesterSpec(
               ("s1" :> SubjectSpec({"T1"}, "any_of", 2, 1, 1, <<>>,
                                    {<<0, 0>>, <<0, 1>>, <<1, 0>>}, <<>>))
                 @@ ("s2" :> SubjectSpec(ts, "all_of", 1, 1, 1, <<>>,
                                         {<<0, 1>>, <<1, 0>>, <<1, 1>>}, <<>>)),
               {}),
     {}, EmptyMap, EmptyMap, EmptyMap, EmptyMap, [t \in ts |-> {0}]) :
   ts \in {{"P01"}, {"P01", "P02"}, CoTeachers}}

\* the 5 x 5 calendar of the documented scenarios
ScenarioCalendar == <<5, 5>>

\* calendars diagnose_infeasible is called with on its own
PrecheckCalendars == {<<NumDays, NumPeriods>>, ScenarioCalendar}

\* inputs of diagnose_infeasible called on its own: two classes sharing the
\* teacher T1, with weekly loads, minimum loads, a tag cap and a teacher cap
\* on either side of what the calendars allow
PrecheckInputs ==
  {TimetableInput(
     ("c1" :> ClassSemesterSpec(
                "s1" :> SubjectSpec({"T1"}, m, a, 1, 1, tg, {}, <<>>), {}))
       @@ ("c2" :> ClassSemesterSpec("s1" :> Plain({"T1"}, m, 5, 1, 1), {})),
     mn, EmptyMap, tag_max, t_max, EmptyMap, EmptyMap) :
   m \in Modes, a \in {5, 6, 26}, tg \in {<<>>, <<"lab">>}, mn \in {{}, {6}, {30}},
   tag_max \in {EmptyMap, "lab" :> 1}, t_max \in {EmptyMap, "T1" :> 9}}

Inputs ==
  LoadInputs \cup SharedTeacherInputs \cup FullLoadInputs \cup TeacherLimitInputs
    \cup PlacementInputs \cup OptionalGroupInputs \cup TagLimitInputs
    \cup SanityErrorInputs

\* ------------------------------------------------------------------ precheck
\* sorted(...): the names in the order of the model's name universes
ClassOrder == <<"c1", "c2">>
TeacherOrder == <<"T1", "T2">>
TagOrder == <<"lab">>

InOrder(order, S) == SelectSeq(order, LAMBDA x : x \in S)

RECURSIVE Concat(_)
\* the concatenation of a sequence of sequences
Concat(seqs) == IF seqs = <<>> THEN <<>> ELSE Head(seqs) \o Concat(Tail(seqs))

\* _compute_required_periods_by_class: sum of periods_per_week of the class
required_by_class(i, c) ==
  SumOver([s \in SubjectsOf(i, c) |-> Subj(i, c, s).periods_per_week], SubjectsOf(i, c))

\* _compute_required_periods_by_teacher: the keys are the teachers of all_of
\* subjects, the value is the sum of periods_per_week of those subjects
definite_teachers(i) ==
  UNION {Subj(i, cs[1], cs[2]).teachers :
           cs \in {x \in ClassSubjects(i) : mode(Subj(i, x[1], x[2])) = "all_of"}}

required_by_teacher(i, t) ==
  LET co == {cs \in ClassSubjects(i) :
               /\ mode(Subj(i, cs[1], cs[2])) = "all_of"
               /\ t \in Subj(i, cs[1], cs[2]).teachers}
  IN SumOver([cs \in co |-> Subj(i, cs[1], cs[2]).periods_per_week], co)

\* _compute_required_tag_periods_by_class: a subject counts once when the tag
\* is among its tags
required_tag_periods(i, c, tag) ==
  LET tagged == {s \in SubjectsOf(i, c) : tag \in Range(Subj(i, c, s).tags)}
  IN SumOver([s \in tagged |-> Subj(i, c, s).periods_per_week], tagged)

\* 1) class weekly periods cannot exceed the available slots
ClassLoadReasons(i, slots) ==
  Concat([n \in DOMAIN InOrder(ClassOrder, ClassesOf(i)) |->
            LET c == InOrder(ClassOrder, ClassesOf(i))[n]
            IN IF required_by_class(i, c) > slots
                 THEN <<<<"class_load_exceeds_slots", c, required_by_class(i, c), slots>>>>
                 ELSE <<>>])

\* mutant: a minimum is compared with the slots only, not with the scheduled
\* periods
MinClassesReasons_SlotsOnly(i, slots) ==
  Concat([n \in DOMAIN InOrder(ClassOrder, ClassesOf(i)) |->
            LET c == InOrder(ClassOrder, ClassesOf(i))[n]
            IN IF required_min(i, c) = {} THEN <<>>
               ELSE LET m == CHOOSE x \in required_min(i, c) : TRUE
                    IN IF m > slots
                         THEN <<<<"min_exceeds_slots", c, m, slots>>>> ELSE <<>>])

\* 2) a configured minimum cannot exceed the scheduled periods nor the slots
MinClassesReasons(i, slots) ==
  Concat([n \in DOMAIN InOrder(ClassOrder, ClassesOf(i)) |->
            LET c == InOrder(ClassOrder, ClassesOf(i))[n]
                req_periods == required_by_class(i, c)
            IN IF required_min(i, c) = {} THEN <<>>
               ELSE LET m == CHOOSE x \in required_min(i, c) : TRUE
                    IN (IF m > req_periods
                          THEN <<<<"min_exceeds_scheduled", c, m, req_periods>>>>
                          ELSE <<>>)
                       \o (IF m > slots
                             THEN <<<<"min_exceeds_slots", c, m, slots>>>> ELSE <<>>)])

\* mutant: the load of a teacher counts the subjects of either teaching mode
TeacherLoadReasons_AnyMode(i, slots) ==
  Concat([n \in DOMAIN TeacherOrder |->
            LET t == TeacherOrder[n]
                co == {cs \in ClassSubjects(i) : t \in Subj(i, cs[1], cs[2]).teachers}
                req == SumOver([cs \in co |-> Subj(i, cs[1], cs[2]).periods_per_week], co)
            IN IF co = {} THEN <<>>
               ELSE (IF req > slots
                       THEN <<<<"teacher_load_exceeds_no_overlap", t, req, slots>>>>
                       ELSE <<>>)
                    \o (IF /\ t \in DOMAIN i.teacher_max_periods_per_week
                           /\ req > i.teacher_max_periods_per_week[t]
                          THEN <<<<"teacher_load_exceeds_cap", t, req,
                                   i.teacher_max_periods_per_week[t]>>>>
                          ELSE <<>>)])

\* 3) the definite (all_of) load of a teacher against the slots and the cap
TeacherLoadReasons(i, slots) ==
  Concat([n \in DOMAIN InOrder(TeacherOrder, definite_teachers(i)) |->
            LET t == InOrder(TeacherOrder, definite_teachers(i))[n]
                req == required_by_teacher(i, t)
            IN (IF req > slots
                  THEN <<<<"teacher_load_exceeds_no_overlap", t, req, slots>>>> ELSE <<>>)
               \o (IF /\ t \in DOMAIN i.teacher_max_periods_per_week
                      /\ req > i.teacher_max_periods_per_week[t]
                     THEN <<<<"teacher_load_exceeds_cap", t, req,
                              i.teacher_max_periods_per_week[t]>>>>
                     ELSE <<>>)])

\* 4) weekly tagged periods of a class against limit_per_day * num_days
TagReasons(i, num_days) ==
  Concat([n \in DOMAIN InOrder(TagOrder, DOMAIN i.max_periods_per_day_by_tag) |->
            LET tag == InOrder(TagOrder, DOMAIN i.max_periods_per_day_by_tag)[n]
                per_day_limit == i.max_periods_per_day_by_tag[tag]
            IN IF per_day_limit < 0 THEN <<>>
               ELSE Concat([m \in DOMAIN InOrder(ClassOrder, ClassesOf(i)) |->
                      LET c == InOrder(ClassOrder, ClassesOf(i))[m]
                          req == required_tag_periods(i, c, tag)
                      IN IF req > per_day_limit * num_days
                           THEN <<<<"tag_load_exceeds_limit", tag, c, req,
                                    per_day_limit * num_days>>>>
                           ELSE <<>>])])

\* mutant: the loads are compared with the periods of one day
precheck_SlotsOfOneDay(i, num_days, num_periods) ==
  ClassLoadReasons(i, num_periods)
    \o MinClassesReasons(i, num_periods)
    \o TeacherLoadReasons(i, num_periods)
    \o TagReasons(i, num_days)

\* mutant: the checks stop at the first reason found
precheck_FirstOnly(i, num_days, num_periods) ==
  LET all == ClassLoadReasons(i, num_days * num_periods)
               \o MinClassesReasons(i, num_days * num_periods)
               \o TeacherLoadReasons(i, num_days * num_periods)
               \o TagReasons(i, num_days)
  IN IF all = <<>> THEN <<>> ELSE <<Head(all)>>

\* _precheck_and_explain_obvious_infeasibility: the reasons, in report order
precheck(i, num_days, num_periods) ==
  ClassLoadReasons(i, num_days * num_periods)
    \o MinClassesReasons(i, num_days * num_periods)
    \o TeacherLoadReasons(i, num_days * num_periods)
    \o TagReasons(i, num_days)

\* ------------------------------------------------------------- state machine
VARIABLES
  inp,      \* the validated input (specs, calendar sizes, constraints)
  pc,       \* "start" | "returned" | "raised", then the stage of the diagnosis:
            \* "diagnose" | "baseline" | "min" | "tag" | "placement" | "diagnosed"
            \* | "diagnose_raised"
  flags,    \* the enable_* arguments of the last call of solve_timetable
  status,   \* its solver status, "NONE" before the call and when it raised
  asg,      \* the solver's variable values after a solved status
  calendar, \* <<len(days), len(periods)>> handed to diagnose_infeasible
  lines,    \* the lines diagnose_infeasible has appended so far
  solves,   \* the re-solves of the diagnosis so far: <<flags, status>> each
  objective_value  \* meta["objective_value"] of the last call, "None" if absent

vars == <<inp, pc, flags, status, asg, calendar, lines, solves, objective_value>>

Flags(placement, tag, min, teacher, pref) ==
  [enable_placement_constraints |-> placement, enable_tag_limits |-> tag,
   enable_min_classes_per_week |-> min, enable_teacher_constraints |-> teacher,
   enable_teacher_preferences |-> pref]

DefaultFlags == Flags(TRUE, TRUE, TRUE, TRUE, TRUE)

\* the calls the program makes: the top-level solve and the four relaxed
\* re-solves of diagnose_infeasible (baseline, minimum load, tag caps, placement)
\* mutant: the baseline keeps the teacher hard limits
BaselineFlags_TeacherLimitsKept == Flags(FALSE, FALSE, FALSE, TRUE, FALSE)
BaselineFlags == Flags(FALSE, FALSE, FALSE, FALSE, FALSE)
MinClassesFlags == Flags(FALSE, FALSE, TRUE, FALSE, FALSE)
TagLimitFlags == Flags(FALSE, TRUE, FALSE, FALSE, FALSE)
PlacementFlags == Flags(TRUE, FALSE, FALSE, FALSE, FALSE)

\* the calls made for one input: the re-solve with the minimum load is made
\* only when a minimum is configured, the one with the tag caps only when the
\* tag caps are not empty
CallFlags(i) ==
  {DefaultFlags, BaselineFlags, PlacementFlags}
    \cup (IF i.min_classes_per_week # {} \/ DOMAIN i.min_classes_per_week_by_class # {}
           THEN {MinClassesFlags} ELSE {})
    \cup (IF DOMAIN i.max_periods_per_day_by_tag # {} THEN {TagLimitFlags} ELSE {})

Solved == {"OPTIMAL", "FEASIBLE"}

Init ==
  /\ inp \in Inputs
  /\ pc = "start"
  /\ flags = DefaultFlags
  /\ status = "NONE"
  /\ asg = NoAssignment
  /\ calendar = <<NumDays, NumPeriods>>
  /\ lines = <<>>
  /\ solves = <<>>
  /\ objective_value = "None"

\* solve_timetable(..., enable_* = f) raises a configuration error
SolveRaises(f) ==
  /\ pc = "start"
  /\ ConfigError(inp, f)
  /\ pc' = "raised"
  /\ flags' = f
  /\ UNCHANGED <<inp, status, asg, calendar, lines, solves, objective_value>>

\* what solver.Solve can return for the compiled model: no verdict within the
\* time limit, a proof that there is no solution, a solution, or a solution
\* together with a proof that its objective value is the least
Verdicts(i, f) ==
  LET sols == Solutions(i, f)
  IN {<<"UNKNOWN", NoAssignment, "None">>}
       \cup (IF sols = {} THEN {<<"INFEASIBLE", NoAssignment, "None">>} ELSE {})
       \cup UNION {{<<"FEASIBLE", a, v>> : v \in ObjectiveValues(i, f, a)} : a \in sols}
       \cup {<<"OPTIMAL", a, Objective(i, f, a)>> : a \in OptimalSolutions(i, f, sols)}

\* solve_timetable(..., enable_* = f) returns with the solver's verdict
SolveReturns(f) ==
  /\ pc = "start"
  /\ ~ ConfigError(inp, f)
  /\ pc' = "returned"
  /\ flags' = f
  /\ \E v \in Verdicts(inp, f) :
        status' = v[1] /\ asg' = v[2] /\ objective_value' = v[3]
  /\ UNCHANGED <<inp, calendar, lines, solves>>

\* ---------------------------------------------------------------- projection
\* mutant: a teacher's total counts the days, not the slots, the teacher works
compute_teacher_allocation_periods_DaysCounted(a) ==
  LET on == a.occ_subj_teacher
      reported == {k[3] : k \in on}
  IN [per_teacher |->
        [t \in reported |->
           [cs \in {<<k[1], k[2]>> : k \in {x \in on : x[3] = t}} |->
              Cardinality({k \in on : k[1] = cs[1] /\ k[2] = cs[2] /\ k[3] = t})]],
      totals |-> [t \in reported |-> Cardinality({k[4] : k \in {x \in on : x[3] = t}})]]

\* _compute_teacher_allocation_periods: over the occ_subj_teacher variables of
\* value 1 (the keys in a.occ_subj_teacher), per_teacher[t][(cls, subj)] and
\* totals[t] are each incremented once a key; a teacher with no such key has
\* no entry in either dict
compute_teacher_allocation_periods(a) ==
  LET on == a.occ_subj_teacher
      reported == {k[3] : k \in on}
  IN [per_teacher |->
        [t \in reported |->
           [cs \in {<<k[1], k[2]>> : k \in {x \in on : x[3] = t}} |->
              Cardinality({k \in on : k[1] = cs[1] /\ k[2] = cs[2] /\ k[3] = t})]],
      totals |-> [t \in reported |-> Cardinality({k \in on : k[3] = t})]]

\* ----------------------------------------------------------------- diagnosis
\* The lines of the report; a line is a tuple of its text and its arguments.
PrecheckHeader == <<"Obvious infeasibility detected (necessary-condition checks):">>

\* solver.StatusName(st) is part of the last line
BaselineLines(st) ==
  <<<<"Model is infeasible even with placement constraints, tag limits, and min_classes_per_week all disabled.">>,
    <<"Likely causes:">>,
    <<"- Teacher overload (total periods/week) or class overload">>,
    <<"- Periods/day too small for required contiguous blocks">>,
    <<"- Conflicting fixed durations vs periods_per_week">>,
    <<"(Solver status:", st>>>>

MinClassesLines ==
  <<<<"Infeasible when enabling constraint group: min_classes_per_week.">>,
    <<"Hint: For each class, min_classes_per_week must be <= total periods_per_week.">>>>

TagLimitLines ==
  <<<<"Infeasible when enabling constraint group: max_periods_per_day_by_tag.">>,
    <<"Hint: total tagged periods/week must be <= limit_per_day * num_days for each class.">>>>

PlacementLines ==
  <<<<"Infeasible when enabling constraint group: placement constraints.">>,
    <<"This includes: fixed_sessions, allowed_starts, blocked_periods (class).">>,
    <<"Hint: check for conflicts like:">>,
    <<"- Two classes fixing the same teacher to the same day/period">>,
    <<"- A fixed_session landing in a blocked_period">>,
    <<"- allowed_starts too restrictive to fit required periods_per_week">>>>

InteractionLines ==
  <<<<"Could not isolate a single failing constraint group; infeasibility likely comes from interactions between multiple groups.">>,
    <<"Try temporarily removing fixed_sessions/allowed_starts or loosening tag limits to find the conflict.">>>>

\* the statuses solve_timetable can return
Statuses(i, f) ==
  {"UNKNOWN"} \cup (IF Feasible(i, f) THEN {"FEASIBLE", "OPTIMAL"} ELSE {"INFEASIBLE"})

\* main and the server endpoint: "if status not in (OPTIMAL, FEASIBLE)" after
\* the top-level solve, diagnose_infeasible is called
Diagnose ==
  /\ pc = "returned"
  /\ flags = DefaultFlags
  /\ status \notin Solved
  /\ pc' = "diagnose"
  /\ UNCHANGED <<inp, flags, status, asg, calendar, lines, solves, objective_value>>

\* the necessary-condition checks; any reason ends the diagnosis
Precheck ==
  /\ pc = "diagnose"
  /\ LET pre == precheck(inp, calendar[1], calendar[2])
     IN IF pre # <<>>
          THEN lines' = lines \o <<PrecheckHeader>> \o pre /\ pc' = "diagnosed"
          ELSE lines' = lines /\ pc' = "baseline"
  /\ UNCHANGED <<inp, flags, status, asg, calendar, solves, objective_value>>

\* the lines diagnose_infeasible returns when its re-solve under the flags f
\* ends with the status st, which is not a solved one
FailedLines(f, st) ==
  IF f = BaselineFlags THEN BaselineLines(st)
  ELSE IF f = MinClassesFlags THEN MinClassesLines
  ELSE IF f = TagLimitFlags THEN TagLimitLines
  ELSE PlacementLines

\* one re-solve of the diagnosis with the flags f: a status that is not solved
\* appends the lines FailedLines(f, st) and ends the diagnosis, a solved one appends
\* the lines passed and moves on to the stage next.  The assignment of the
\* re-solve is dropped.  No call of solve_timetable is inside a try block: a
\* configuration error of the re-solve ends diagnose_infeasible by the same
\* ValueError, before the solver is invoked, and its lines are lost.  (After a
\* top-level solve that returned this cannot happen: that call enables every
\* group and makes the same checks.)  The solver either runs out of time
\* (UNKNOWN) or reaches a verdict.
\* mutant: the lines of a re-solve that passed are not appended
ReSolve_PassedLinesDropped(f, passed, next) ==
  IF ConfigError(inp, f)
    THEN /\ pc' = "diagnose_raised"
         /\ UNCHANGED <<inp, flags, status, asg, calendar, lines, solves, objective_value>>
    ELSE /\ \E verdict \in BOOLEAN :
            \E st \in (IF verdict THEN Statuses(inp, f) \ {"UNKNOWN"} ELSE {"UNKNOWN"}) :
               /\ solves' = Append(solves, <<f, st>>)
               /\ IF st \notin Solved
                    THEN lines' = lines \o FailedLines(f, st) /\ pc' = "diagnosed"
                    ELSE lines' = lines /\ pc' = next
         /\ UNCHANGED <<inp, flags, status, asg, calendar, objective_value>>

ReSolve(f, passed, next) ==
  IF ConfigError(inp, f)
    THEN /\ pc' = "diagnose_raised"
         /\ UNCHANGED <<inp, flags, status, asg, calendar, lines, solves, objective_value>>
    ELSE /\ \E verdict \in BOOLEAN :
            \E st \in (IF verdict THEN Statuses(inp, f) \ {"UNKNOWN"} ELSE {"UNKNOWN"}) :
               /\ solves' = Append(solves, <<f, st>>)
               /\ IF st \notin Solved
                    THEN lines' = lines \o FailedLines(f, st) /\ pc' = "diagnosed"
                    ELSE lines' = lines \o passed /\ pc' = next
         /\ UNCHANGED <<inp, flags, status, asg, calendar, objective_value>>

\* a stage whose group is not configured makes no solver call
SkipTo(next) ==
  /\ pc' = next
  /\ UNCHANGED <<inp, flags, status, asg, calendar, lines, solves, objective_value>>

Baseline ==
  /\ pc = "baseline"
  /\ ReSolve(BaselineFlags, <<>>, "min")

\* mutant: the minimum-load re-solve is made whether or not a minimum is set
MinClassesGroup_NeverSkipped ==
  /\ pc = "min"
  /\ ReSolve(MinClassesFlags, <<>>, "tag")

MinClassesGroup ==
  /\ pc = "min"
  /\ IF inp.min_classes_per_week # {} \/ DOMAIN inp.min_classes_per_week_by_class # {}
       THEN ReSolve(MinClassesFlags, <<>>, "tag")
       ELSE SkipTo("tag")

TagLimitGroup ==
  /\ pc = "tag"
  /\ IF DOMAIN inp.max_periods_per_day_by_tag # {}
       THEN ReSolve(TagLimitFlags, <<>>, "placement")
       ELSE SkipTo("placement")

PlacementGroup ==
  /\ pc = "placement"
  /\ ReSolve(PlacementFlags, InteractionLines, "diagnosed")

\* the detail of the HTTP 400 response of the server's solve endpoint, raised
\* once the diagnosis has returned
ServerDetail == [message |-> "Infeasible", diagnostics |-> lines]

\* the keyword-only parameters of _format_class_timetable_html, none of which
\* has a default
format_class_timetable_html_parameters ==
  {"class_name", "subjects", "days", "periods", "solver", "occ_subj",
   "occ_subj_teacher", "subject_teachers", "subject_teaching_mode"}

\* the keywords the server's solve endpoint calls it with, once a class
ServerFormatCallKeywords ==
  {"spec", "days", "periods", "solver", "occ_subj", "occ_subj_teacher",
   "subject_teachers", "subject_teaching_mode"}

\* a call with an unexpected keyword, or without a required one, raises
\* TypeError
RaisesTypeError(parameters, keywords) ==
  keywords \ parameters # {} \/ parameters \ keywords # {}

\* the answer of the server's solve endpoint once the top-level solve has
\* returned a solved status: its HTTP status code and the keys of its JSON
\* body.  The loop over specs runs at least once (an empty specs was answered
\* with 400 before the solve); an exception the endpoint does not catch is
\* answered with 500 and no JSON object.
ServerSolvedResponse ==
  IF ClassesOf(inp) # {}
       /\ RaisesTypeError(format_class_timetable_html_parameters, ServerFormatCallKeywords)
    THEN [status_code |-> 500, keys |-> {}]
    ELSE [status_code |-> 200, keys |-> {"status", "objective_value", "html"}]

Next ==
  \/ \E f \in CallFlags(inp) : SolveRaises(f)
  \/ \E f \in CallFlags(inp) : SolveReturns(f)
  \/ Diagnose
  \/ Precheck
  \/ Baseline
  \/ MinClassesGroup
  \/ TagLimitGroup
  \/ PlacementGroup

Spec == Init /\ [][Next]_vars

\* the program on the inputs whose subjects share teachers
InitAllocation == Init /\ inp \in SharedTeacherInputs \cup SanityErrorInputs

AllocationSpec == InitAllocation /\ [][Next]_vars

\* the program on the inputs with a repeated tag
InitTag ==
  /\ inp \in DuplicateTagInputs \cup SanityErrorInputs
  /\ pc = "start"
  /\ flags = DefaultFlags
  /\ status = "NONE"
  /\ asg = NoAssignment
  /\ calendar = <<NumDays, NumPeriods>>
  /\ lines = <<>>
  /\ solves = <<>>
  /\ objective_value = "None"

TagSpec == InitTag /\ [][Next]_vars

\* the program on the inputs in which a same-day repeat saves teacher
\* preference penalties
InitPriority ==
  /\ inp \in PriorityInputs \cup SanityErrorInputs
  /\ pc = "start"
  /\ flags = DefaultFlags
  /\ status = "NONE"
  /\ asg = NoAssignment
  /\ calendar = <<NumDays, NumPeriods>>
  /\ lines = <<>>
  /\ solves = <<>>
  /\ objective_value = "None"

PrioritySpec == InitPriority /\ [][Next]_vars

\* the program on the inputs with several starts a day and with teacher
\* preferences
InitPenalty == Init /\ inp \in LoadInputs \cup OptionalGroupInputs

PenaltySpec == InitPenalty /\ [][Next]_vars

\* diagnose_infeasible called on its own, on every input
InitDiag ==
  /\ inp \in Inputs
  /\ calendar = <<NumDays, NumPeriods>>
  /\ pc = "diagnose"
  /\ flags = DefaultFlags
  /\ status = "NONE"
  /\ asg = NoAssignment
  /\ lines = <<>>
  /\ solves = <<>>
  /\ objective_value = "None"

NextDiag ==
  \/ Precheck
  \/ Baseline
  \/ MinClassesGroup
  \/ TagLimitGroup
  \/ PlacementGroup

DiagnoseSpec == InitDiag /\ [][NextDiag]_vars

\* diagnose_infeasible runs on: a sequential function, each of whose steps is
\* taken once it can be
DiagnoseRunSpec == InitDiag /\ [][NextDiag]_vars /\ WF_vars(NextDiag)

\* diagnose_infeasible called on its own, up to its first solver call
InitPre ==
  /\ inp \in PrecheckInputs
  /\ calendar \in PrecheckCalendars
  /\ pc = "diagnose"
  /\ flags = DefaultFlags
  /\ status = "NONE"
  /\ asg = NoAssignment
  /\ lines = <<>>
  /\ solves = <<>>
  /\ objective_value = "None"

NextPre == Precheck

PrecheckSpec == InitPre /\ [][NextPre]_vars

\* ------------------------------------------------------------------- claims
\* the periods a block (a key of y) spans
BlockPeriods(k) == k[4] .. (k[4] + k[5] - 1)

\* the slots of the week in which subject s of class c is scheduled
OccupiedBy(c, s) == {<<k[3], k[4]>> : k \in {x \in asg.occ_subj : x[1] = c /\ x[2] = s}}

\* the blocks chosen for subject s of class c
Blocks(c, s) == {k \in asg.y : k[1] = c /\ k[2] = s}

\* the (class, subject) pairs teacher t is occupied by in slot (d, p)
TeacherBusyWith(t, d, p) ==
  {<<k[1], k[2]>> : k \in {x \in asg.occ_subj_teacher :
                             x[3] = t /\ x[4] = d /\ x[5] = p}}

\* the teachers occupied by subject s of class c in slot (d, p)
TeachersAt(c, s, d, p) ==
  {k[3] : k \in {x \in asg.occ_subj_teacher :
                   x[1] = c /\ x[2] = s /\ x[4] = d /\ x[5] = p}}

RequiredPeriods(c) ==
  SumOver([s \in SubjectsOf(inp, c) |-> Subj(inp, c, s).periods_per_week],
          SubjectsOf(inp, c))

\* C1: in every solved assignment each subject of each class occupies exactly
\* periods_per_week slots over the week (never fewer, never more), and each
\* class's number of occupied slots is the sum of its subjects' periods_per_week
C1_ExactWeeklyLoad ==
  status \in Solved =>
    \A c \in ClassesOf(inp) :
       /\ \A s \in SubjectsOf(inp, c) :
             Cardinality(OccupiedBy(c, s)) = Subj(inp, c, s).periods_per_week
       /\ Cardinality({k \in asg.occ : k[1] = c}) = RequiredPeriods(c)

\* a solved week in which a three-period load is met by a two-period block and
\* a one-period block
C1_Witness ==
  /\ status \in Solved
  /\ \E c \in ClassesOf(inp) : \E s \in SubjectsOf(inp, c) :
        /\ Subj(inp, c, s).periods_per_week = 3
        /\ \E k \in Blocks(c, s) : k[5] = 2
        /\ \E k \in Blocks(c, s) : k[5] = 1
        /\ Cardinality(OccupiedBy(c, s)) = 3

\* C2: in every solved assignment at most one subject of a class occupies a
\* (day, period), and occ[class, day, period] is 1 exactly when some subject of
\* the class occupies the slot
C2_ClassNonOverlap ==
  status \in Solved =>
    \A c \in ClassesOf(inp) : \A dp \in Slots :
       LET here == {s \in SubjectsOf(inp, c) : <<dp[1], dp[2]>> \in OccupiedBy(c, s)}
       IN /\ Cardinality(here) <= 1
          /\ (<<c, dp[1], dp[2]>> \in asg.occ) <=> (here # {})

\* a solved week of a class with two subjects on the same day, with a free slot
C2_Witness ==
  /\ status \in Solved
  /\ \E c \in ClassesOf(inp) : \E d \in Days :
        /\ <<d, 0>> \in OccupiedBy(c, "s1")
        /\ <<d, 1>> \in OccupiedBy(c, "s2")
        /\ \E dp \in Slots : <<c, dp[1], dp[2]>> \notin asg.occ

\* C3: in every solved assignment, under every combination of enabled groups
\* and in both teaching modes, a teacher is occupied by at most one
\* (class, subject) pair in each (day, period)
C3_TeacherExclusive ==
  status \in Solved =>
    \A t \in Teachers : \A dp \in Slots :
       Cardinality(TeacherBusyWith(t, dp[1], dp[2])) <= 1

\* with every optional group disabled, a teacher co-teaching an all_of
\* subject of one class also teaches in the other class, in another slot
C3_Witness ==
  /\ status \in Solved
  /\ flags = BaselineFlags
  /\ ClassesOf(inp) = {"c1", "c2"}
  /\ Subj(inp, "c1", "s1").teaching_mode = "all_of"
  /\ \E dp \in Slots : TeacherBusyWith("T1", dp[1], dp[2]) = {<<"c1", "s1">>}
  /\ \E dp \in Slots : TeacherBusyWith("T1", dp[1], dp[2]) = {<<"c2", "s1">>}

\* C4: in every solved assignment at most one chosen block of a subject covers
\* a period, the subject occupies a period exactly when a chosen block covers
\* it, and every chosen block has a duration within the subject's contiguous
\* range and ends within the day
C4_BlocksCoverOnce ==
  status \in Solved =>
    \A cs \in ClassSubjects(inp) :
       /\ \A dp \in Slots :
             LET covering == {k \in Blocks(cs[1], cs[2]) :
                                k[3] = dp[1] /\ dp[2] \in BlockPeriods(k)}
             IN /\ Cardinality(covering) <= 1
                /\ (dp \in OccupiedBy(cs[1], cs[2])) <=> (covering # {})
       /\ \A k \in Blocks(cs[1], cs[2]) :
             /\ k[5] >= Subj(inp, cs[1], cs[2]).min_contiguous_periods
             /\ k[5] <= Subj(inp, cs[1], cs[2]).max_contiguous_periods
             /\ k[4] + k[5] <= NumPeriods

\* a solved week in which a subject has a two-period block on one day and a
\* one-period block on another
C4_Witness ==
  /\ status \in Solved
  /\ \E cs \in ClassSubjects(inp) :
        \E k1 \in Blocks(cs[1], cs[2]), k2 \in Blocks(cs[1], cs[2]) :
           k1[5] = 2 /\ k2[5] = 1 /\ k1[3] # k2[3]

\* C5: in every solved assignment, in each slot, every listed teacher of an
\* all_of subject is occupied by it exactly when the subject occupies the slot;
\* exactly one listed teacher of an any_of subject is occupied by it when the
\* subject occupies the slot, and none when it does not
C5_TeachingModeLink ==
  status \in Solved =>
    \A cs \in ClassSubjects(inp) : \A dp \in Slots :
       LET subj == Subj(inp, cs[1], cs[2])
           at == TeachersAt(cs[1], cs[2], dp[1], dp[2])
           occupied == dp \in OccupiedBy(cs[1], cs[2])
       IN /\ at \subseteq subj.teachers
          /\ IF subj.teaching_mode = "all_of"
               THEN at = (IF occupied THEN subj.teachers ELSE {})
               ELSE Cardinality(at) = (IF occupied THEN 1 ELSE 0)

\* a solved week with a co-taught all_of subject in one class and an any_of
\* subject with two listed teachers, taught by one of them, in the other
C5_Witness ==
  /\ status \in Solved
  /\ ClassesOf(inp) = {"c1", "c2"}
  /\ Subj(inp, "c1", "s1").teaching_mode = "all_of"
  /\ Subj(inp, "c2", "s1").teaching_mode = "any_of"
  /\ Subj(inp, "c2", "s1").teachers = {"T1", "T2"}
  /\ \E dp \in Slots : TeachersAt("c1", "s1", dp[1], dp[2]) = {"T1", "T2"}
  /\ \E dp \in Slots : TeachersAt("c2", "s1", dp[1], dp[2]) = {"T2"}

\* C6 as claimed: all periods of one block of an any_of subject are taught by
\* the same single teacher
C6_SameTeacherPerBlock ==
  status \in Solved =>
    \A cs \in ClassSubjects(inp) :
       Subj(inp, cs[1], cs[2]).teaching_mode = "any_of" =>
         \A k \in Blocks(cs[1], cs[2]) :
            \E t \in Subj(inp, cs[1], cs[2]).teachers :
               \A p \in BlockPeriods(k) : TeachersAt(cs[1], cs[2], k[3], p) = {t}

\* C6 (amended): the teacher of an any_of subject is chosen per occupied
\* period, not per session: every period of every chosen block is taught by
\* exactly one listed teacher, who may differ between the periods of one block
C6_OneTeacherPerBlockPeriod ==
  status \in Solved =>
    \A cs \in ClassSubjects(inp) :
       Subj(inp, cs[1], cs[2]).teaching_mode = "any_of" =>
         \A k \in Blocks(cs[1], cs[2]) : \A p \in BlockPeriods(k) :
            \E t \in Subj(inp, cs[1], cs[2]).teachers :
               TeachersAt(cs[1], cs[2], k[3], p) = {t}

\* a solved week in which the teacher changes in the middle of a two-period
\* block of an any_of subject
C6_Witness ==
  /\ status \in Solved
  /\ \E cs \in ClassSubjects(inp) :
        /\ Subj(inp, cs[1], cs[2]).teaching_mode = "any_of"
        /\ \E k \in Blocks(cs[1], cs[2]) :
              /\ k[5] = 2
              /\ TeachersAt(cs[1], cs[2], k[3], k[4]) = {"T1"}
              /\ TeachersAt(cs[1], cs[2], k[3], k[4] + 1) = {"T2"}

\* the blocks of subject s of class c a fixed session ranges over: those
\* starting at its period, on its day when given, with its duration when given
StartingAt(c, s, fs) ==
  {k \in Blocks(c, s) :
     /\ k[4] = fs.period
     /\ fs.day # {} => k[3] \in fs.day
     /\ fs.duration # {} => k[5] \in fs.duration}

\* C7: with placement constraints enabled, a fixed session with day and
\* duration has its block chosen; with one of them omitted, exactly one block
\* among those it ranges over is chosen; and a subject whose periods_per_week
\* is the duration of its single fully specified fixed session occupies exactly
\* that block's slots
C7_FixedSessions ==
  (status \in Solved /\ flags.enable_placement_constraints) =>
    \A cs \in ClassSubjects(inp) :
       LET subj == Subj(inp, cs[1], cs[2])
       IN /\ \A fs \in Range(subj.fixed_sessions) :
                /\ (fs.day # {} /\ fs.duration # {}) =>
                     \A d \in fs.day : \A dur \in fs.duration :
                        <<cs[1], cs[2], d, fs.period, dur>> \in asg.y
                /\ Cardinality(StartingAt(cs[1], cs[2], fs)) = 1
          /\ \A fs \in Range(subj.fixed_sessions) :
                (/\ Len(subj.fixed_sessions) = 1
                 /\ fs.day # {}
                 /\ fs.duration = {subj.periods_per_week}) =>
                   \A d \in fs.day :
                      OccupiedBy(cs[1], cs[2])
                        = {<<d, p>> : p \in fs.period .. (fs.period + subj.periods_per_week - 1)}

\* a solved week in which a subject of two periods a week is pinned by its
\* fixed session to day 0, periods 0 and 1
C7_Witness ==
  /\ status \in Solved
  /\ flags.enable_placement_constraints
  /\ "c1" \in ClassesOf(inp)
  /\ Subj(inp, "c1", "s1").fixed_sessions = <<FixedSessionSpec(0, {0}, {2})>>
  /\ Subj(inp, "c1", "s1").periods_per_week = 2
  /\ OccupiedBy("c1", "s1") = {<<0, 0>>, <<0, 1>>}

\* C8: with placement constraints enabled, no subject of a class occupies a
\* blocked (day, period) of the class, and no chosen block spans one
C8_BlockedPeriods ==
  (status \in Solved /\ flags.enable_placement_constraints) =>
    \A c \in ClassesOf(inp) : \A dp \in inp.specs[c].blocked_periods :
       /\ \A s \in SubjectsOf(inp, c) : dp \notin OccupiedBy(c, s)
       /\ \A k \in asg.y : ~ (k[1] = c /\ k[3] = dp[1] /\ dp[2] \in BlockPeriods(k))

\* a solved week of a class with a blocked slot on day 0, whose two-period
\* block is on day 1
C8_Witness ==
  /\ status \in Solved
  /\ flags.enable_placement_constraints
  /\ "c1" \in ClassesOf(inp)
  /\ inp.specs["c1"].blocked_periods = {<<0, 1>>}
  /\ <<"c1", "s1", 1, 0, 2>> \in asg.y
  /\ <<0, 0>> \in OccupiedBy("c1", "s2")

\* C9: with placement constraints enabled, every chosen block, of any
\* duration, of a subject with a non-empty allowed_starts starts at a listed
\* (day, period); an empty allowed_starts restricts nothing: a week solved
\* without placement constraints for a spec without blocked periods, fixed
\* sessions and allowed starts satisfies the model with them enabled
C9_AllowedStarts ==
  /\ (status \in Solved /\ flags.enable_placement_constraints) =>
       \A cs \in ClassSubjects(inp) :
          Subj(inp, cs[1], cs[2]).allowed_starts # {} =>
            \A k \in Blocks(cs[1], cs[2]) :
               <<k[3], k[4]>> \in Subj(inp, cs[1], cs[2]).allowed_starts
  /\ (/\ status \in Solved
      /\ ~ flags.enable_placement_constraints
      /\ \A c \in ClassesOf(inp) : inp.specs[c].blocked_periods = {}
      /\ \A cs \in ClassSubjects(inp) :
            /\ Subj(inp, cs[1], cs[2]).allowed_starts = {}
            /\ Subj(inp, cs[1], cs[2]).fixed_sessions = <<>>) =>
       Constraints(inp, [flags EXCEPT !.enable_placement_constraints = TRUE], asg)

\* a solved week in which a subject allowed to start at (0,0), (1,0) and (1,1)
\* has one-period blocks at (0,0) and (1,1)
C9_Witness ==
  /\ status \in Solved
  /\ flags.enable_placement_constraints
  /\ "c1" \in ClassesOf(inp)
  /\ Subj(inp, "c1", "s1").allowed_starts = {<<0, 0>>, <<1, 0>>, <<1, 1>>}
  /\ Blocks("c1", "s1") = {<<"c1", "s1", 0, 0, 1>>, <<"c1", "s1", 1, 1, 1>>}

\* the slots of the week in which teacher t is occupied
TeacherSlots(t) == {<<k[4], k[5]>> : k \in {x \in asg.occ_subj_teacher : x[3] = t}}

\* C10: with teacher hard limits enabled, a teacher with a configured weekly
\* cap (0 included) is occupied in at most cap slots over the week, over all
\* classes and subjects, and no teacher is occupied in a slot listed as
\* unavailable for them
C10_TeacherLimits ==
  (status \in Solved /\ flags.enable_teacher_constraints) =>
    \A t \in Teachers :
       /\ t \in DOMAIN inp.teacher_max_periods_per_week =>
            /\ Cardinality(TeacherSlots(t)) <= inp.teacher_max_periods_per_week[t]
            /\ Cardinality({k \in asg.occ_subj_teacher : k[3] = t})
                 <= inp.teacher_max_periods_per_week[t]
       /\ t \in DOMAIN inp.teacher_unavailable_periods =>
            TeacherSlots(t) \cap inp.teacher_unavailable_periods[t] = {}

\* a solved week in which a teacher capped at 0 never teaches and the other
\* teacher of the any_of subject takes both of its periods
C10_Witness ==
  /\ status \in Solved
  /\ flags.enable_teacher_constraints
  /\ "T2" \in DOMAIN inp.teacher_max_periods_per_week
  /\ inp.teacher_max_periods_per_week["T2"] = 0
  /\ TeacherSlots("T2") = {}
  /\ Cardinality(TeacherSlots("T1")) = 3

\* the number of slots of the week class c is occupied in
OccupiedSlots(c) == Cardinality({k \in asg.occ : k[1] = c})

\* C11: with the minimum-load group enabled, in every solved assignment each
\* class is occupied in at least its required minimum of slots: its entry of
\* min_classes_per_week_by_class when it has one (even if lower than the global
\* value), the global min_classes_per_week otherwise, nothing when neither
C11_MinClassesPerWeek ==
  (status \in Solved /\ flags.enable_min_classes_per_week) =>
    \A c \in ClassesOf(inp) :
       IF c \in DOMAIN inp.min_classes_per_week_by_class
         THEN OccupiedSlots(c) >= inp.min_classes_per_week_by_class[c]
         ELSE \A m \in inp.min_classes_per_week : OccupiedSlots(c) >= m

\* a week solved with the minimum load enabled for a class whose own minimum
\* of 3 is met, while the global minimum exceeds the slots of the calendar
C11_Witness ==
  /\ status \in Solved
  /\ flags.enable_min_classes_per_week
  /\ inp.min_classes_per_week = {num_slots + 1}
  /\ "c1" \in DOMAIN inp.min_classes_per_week_by_class
  /\ inp.min_classes_per_week_by_class["c1"] = 3
  /\ OccupiedSlots("c1") = 3

\* the subjects of class c that carry the tag
TaggedSubjects(c, tag) ==
  {s \in SubjectsOf(inp, c) : TagCount(Subj(inp, c, s), tag) > 0}

\* the periods of day d in which class c is occupied by a subject with the tag
TaggedPeriods(c, tag, d) ==
  {k \in asg.occ_subj : k[1] = c /\ k[3] = d /\ k[2] \in TaggedSubjects(c, tag)}

\* C12: with the tag limits enabled, in every solved assignment, for every tag
\* with a daily cap, every class and every day, the occupied periods of the
\* class's subjects carrying the tag number at most the cap
C12_TagLimitPerClassPerDay ==
  (status \in Solved /\ flags.enable_tag_limits) =>
    \A tag \in DOMAIN inp.max_periods_per_day_by_tag :
       \A c \in ClassesOf(inp), d \in Days :
          Cardinality(TaggedPeriods(c, tag, d))
            <= inp.max_periods_per_day_by_tag[tag]

\* a solved week where two classes each use the whole cap of a tag on the same
\* day, so that the day's total over the classes exceeds the cap
C12_Witness ==
  /\ status \in Solved
  /\ flags.enable_tag_limits
  /\ "lab" \in DOMAIN inp.max_periods_per_day_by_tag
  /\ \E d \in Days :
        /\ \A c \in {"c1", "c2"} :
              /\ c \in ClassesOf(inp)
              /\ Cardinality(TaggedPeriods(c, "lab", d))
                   = inp.max_periods_per_day_by_tag["lab"]
        /\ Cardinality(TaggedPeriods("c1", "lab", d))
             + Cardinality(TaggedPeriods("c2", "lab", d))
             > inp.max_periods_per_day_by_tag["lab"]

\* the weekly load of a class exceeds the slots of the calendar
LoadExceedsSlots(c) ==
  SumOver([s \in SubjectsOf(inp, c) |-> Subj(inp, c, s).periods_per_week],
          SubjectsOf(inp, c)) > NumDays * NumPeriods

\* a contiguous bound of a subject exceeds the periods of a day
ContiguousExceedsDay(c, s) ==
  \/ Subj(inp, c, s).min_contiguous_periods > NumPeriods
  \/ Subj(inp, c, s).max_contiguous_periods > NumPeriods

\* the weekly periods of a subject are fewer than its shortest block
LoadBelowMinContiguous(c, s) ==
  Subj(inp, c, s).periods_per_week < Subj(inp, c, s).min_contiguous_periods

\* the call has ended by raising: no status, no assignment, no solver call
RaisedWithoutStatus ==
  pc = "raised" /\ status = "NONE" /\ asg = NoAssignment /\ solves = <<>>

\* C13: when the weekly load of some class exceeds numDays x numPeriods, or a
\* subject has a contiguous bound above the periods per day or fewer weekly
\* periods than min_contiguous_periods, every call of solve_timetable ends by
\* raising a configuration error: the solver is not invoked and there is no
\* solve status
C13_SanityErrorRaises ==
  (/\ pc # "start"
   /\ \/ \E c \in ClassesOf(inp) : LoadExceedsSlots(c)
      \/ \E cs \in ClassSubjects(inp) :
            ContiguousExceedsDay(cs[1], cs[2]) \/ LoadBelowMinContiguous(cs[1], cs[2]))
    => RaisedWithoutStatus

\* a call that raised for a subject whose max_contiguous_periods exceeds the
\* periods per day, in a class whose weekly load fits the calendar
C13_Witness ==
  /\ pc = "raised"
  /\ \A c \in ClassesOf(inp) : ~ LoadExceedsSlots(c)
  /\ \E cs \in ClassSubjects(inp) : ContiguousExceedsDay(cs[1], cs[2])

\* the fixed session matches no start variable of its subject
MatchesNoStart(c, s, fs) ==
  \A d \in (IF fs.day = {} THEN Days ELSE fs.day) :
     \A dur \in (IF fs.duration = {}
                   THEN Subj(inp, c, s).min_contiguous_periods
                          .. Subj(inp, c, s).max_contiguous_periods
                   ELSE fs.duration) :
        \/ dur < Subj(inp, c, s).min_contiguous_periods
        \/ dur > Subj(inp, c, s).max_contiguous_periods
        \/ fs.period + dur > NumPeriods

\* some subject has a fixed session matching no start variable
SomeFixedSessionUnmatched ==
  \E cs \in ClassSubjects(inp) :
     \E fs \in Range(Subj(inp, cs[1], cs[2]).fixed_sessions) :
        MatchesNoStart(cs[1], cs[2], fs)

InDiagnosis == pc \in {"diagnose", "baseline", "min", "tag", "placement", "diagnosed"}

\* the diagnosis has ended on a re-solve that returned UNKNOWN
EndedOnUnknownReSolve ==
  /\ pc = "diagnosed"
  /\ solves # <<>>
  /\ solves[Len(solves)][2] = "UNKNOWN"

\* the diagnoser is run only for a full model proven infeasible
C15_DiagnosedOnlyWhenInfeasible == InDiagnosis => status = "INFEASIBLE"

\* the report of a re-solve that ended UNKNOWN is not the report the same
\* re-solve gets when it ends INFEASIBLE
C15_UnknownReSolveReportDiffers ==
  EndedOnUnknownReSolve =>
    lines # FailedLines(solves[Len(solves)][1], "INFEASIBLE")

\* the server does not answer "Infeasible" when the top-level solve or the last
\* re-solve ended UNKNOWN
C15_ServerMessageDiffers ==
  (pc = "diagnosed" /\ (status = "UNKNOWN" \/ EndedOnUnknownReSolve)) =>
    ServerDetail.message # "Infeasible"

\* C15: an UNKNOWN status is surfaced distinctly from INFEASIBLE wherever a
\* status is consumed: the diagnoser runs only for a full model proven
\* infeasible, a re-solve that ends UNKNOWN is reported differently from one
\* that ends INFEASIBLE, and the server never answers UNKNOWN with "Infeasible"
C15_UnknownSurfacedDistinctly ==
  /\ C15_DiagnosedOnlyWhenInfeasible
  /\ C15_UnknownReSolveReportDiffers
  /\ C15_ServerMessageDiffers

\* a full solve proven infeasible whose placement re-solve ended UNKNOWN and was
\* reported with the lines of an infeasible placement group
C15_Witness ==
  /\ status = "INFEASIBLE"
  /\ EndedOnUnknownReSolve
  /\ solves[Len(solves)][1] = PlacementFlags
  /\ lines = PlacementLines

\* the necessary conditions the input violates on the calendar, each as the
\* reason that reports it
ViolatedConditions ==
  LET slots == calendar[1] * calendar[2]
      load(c) == SumOver([s \in SubjectsOf(inp, c) |-> Subj(inp, c, s).periods_per_week],
                         SubjectsOf(inp, c))
      minimum(c) == IF c \in DOMAIN inp.min_classes_per_week_by_class
                      THEN {inp.min_classes_per_week_by_class[c]}
                      ELSE inp.min_classes_per_week
      all_of(t) == {cs \in ClassSubjects(inp) :
                      /\ Subj(inp, cs[1], cs[2]).teaching_mode = "all_of"
                      /\ t \in Subj(inp, cs[1], cs[2]).teachers}
      t_load(t) == SumOver([cs \in all_of(t) |-> Subj(inp, cs[1], cs[2]).periods_per_week],
                           all_of(t))
      tagged(c, tag) == {s \in SubjectsOf(inp, c) :
                           \E n \in DOMAIN Subj(inp, c, s).tags : Subj(inp, c, s).tags[n] = tag}
      tag_load(c, tag) == SumOver([s \in tagged(c, tag) |-> Subj(inp, c, s).periods_per_week],
                                  tagged(c, tag))
  IN {<<"class_load_exceeds_slots", c, load(c), slots>> :
        c \in {x \in ClassesOf(inp) : load(x) > slots}}
     \cup UNION {{<<"min_exceeds_scheduled", c, m, load(c)>> :
                    m \in {x \in minimum(c) : x > load(c)}} : c \in ClassesOf(inp)}
     \cup UNION {{<<"min_exceeds_slots", c, m, slots>> :
                    m \in {x \in minimum(c) : x > slots}} : c \in ClassesOf(inp)}
     \cup {<<"teacher_load_exceeds_no_overlap", t, t_load(t), slots>> :
             t \in {x \in Teachers : all_of(x) # {} /\ t_load(x) > slots}}
     \cup {<<"teacher_load_exceeds_cap", t, t_load(t), inp.teacher_max_periods_per_week[t]>> :
             t \in {x \in Teachers \cap DOMAIN inp.teacher_max_periods_per_week :
                      all_of(x) # {} /\ t_load(x) > inp.teacher_max_periods_per_week[x]}}
     \cup UNION {{<<"tag_load_exceeds_limit", tag, c, tag_load(c, tag),
                    inp.max_periods_per_day_by_tag[tag] * calendar[1]>> :
                    c \in {x \in ClassesOf(inp) :
                             tag_load(x, tag) > inp.max_periods_per_day_by_tag[tag] * calendar[1]}} :
                 tag \in DOMAIN inp.max_periods_per_day_by_tag}

\* C16: once the static checks of diagnose_infeasible have run on an input that
\* violates at least one necessary condition, the diagnosis has returned the
\* precheck header followed by exactly one line for every violated condition,
\* and no solver call has been made
C16_PrecheckReportsEveryViolation ==
  (pc # "diagnose" /\ InDiagnosis /\ ViolatedConditions # {}) =>
    /\ pc = "diagnosed"
    /\ solves = <<>>
    /\ Len(lines) = 1 + Cardinality(ViolatedConditions)
    /\ lines[1] = PrecheckHeader
    /\ {lines[n] : n \in 2 .. Len(lines)} = ViolatedConditions

\* the documented example: over 5 days a class needs 6 weekly periods of a tag
\* capped at 1 per day, and the diagnosis has returned that violation together
\* with a second one, without a solver call
C16_Witness ==
  /\ pc = "diagnosed"
  /\ solves = <<>>
  /\ calendar[1] = 5
  /\ <<"tag_load_exceeds_limit", "lab", "c1", 6, 5>> \in Range(lines)
  /\ Len(lines) = 3

\* the static checks have run and found nothing
PrecheckPassed == InDiagnosis /\ pc # "diagnose" /\ ViolatedConditions = {}

\* the flags of a solve with every optional group disabled
AllGroupsDisabled ==
  [enable_placement_constraints |-> FALSE, enable_tag_limits |-> FALSE,
   enable_min_classes_per_week |-> FALSE, enable_teacher_constraints |-> FALSE,
   enable_teacher_preferences |-> FALSE]

\* C17: when the static checks find nothing, the first solve of the diagnosis
\* is the baseline, with placement, tag caps, minimum load, teacher hard limits
\* and teacher preferences all disabled; when the baseline is infeasible the
\* diagnosis has returned the generic structural-cause lines and the baseline
\* is its only solve
C17_BaselineFirst ==
  /\ (PrecheckPassed /\ pc # "baseline") => solves # <<>>
  /\ solves # <<>> =>
       /\ PrecheckPassed
       /\ solves[1][1] = AllGroupsDisabled
       /\ solves[1][2] = "INFEASIBLE" =>
            /\ pc = "diagnosed"
            /\ Len(solves) = 1
            /\ lines = BaselineLines("INFEASIBLE")

\* a diagnosis that ended on an infeasible baseline, its only solve
C17_Witness ==
  /\ pc = "diagnosed"
  /\ solves = <<(<<AllGroupsDisabled, "INFEASIBLE">>)>>
  /\ lines = BaselineLines("INFEASIBLE")
  /\ Len(lines) = 6

\* the flags of a solve with one optional group enabled and the others disabled
OnlyMinClasses == [AllGroupsDisabled EXCEPT !.enable_min_classes_per_week = TRUE]
OnlyTagLimits == [AllGroupsDisabled EXCEPT !.enable_tag_limits = TRUE]
OnlyPlacement == [AllGroupsDisabled EXCEPT !.enable_placement_constraints = TRUE]

\* the solves of a diagnosis that runs to its end, in order
ExpectedSolves ==
  <<AllGroupsDisabled>>
    \o (IF inp.min_classes_per_week # {} \/ inp.min_classes_per_week_by_class # <<>>
          THEN <<OnlyMinClasses>> ELSE <<>>)
    \o (IF inp.max_periods_per_day_by_tag # <<>> THEN <<OnlyTagLimits>> ELSE <<>>)
    \o <<OnlyPlacement>>

\* the lines that report the group enabled by the flags f as the failing one
GroupLines(f) ==
  IF f = OnlyMinClasses THEN MinClassesLines
  ELSE IF f = OnlyTagLimits THEN TagLimitLines
  ELSE PlacementLines

\* C18: the solves of a diagnosis are, in order, the baseline, then one solve
\* per optional group alone: minimum load (none when no global or per-class
\* minimum is configured), tag caps (none when no tag limit is configured),
\* placement.  Every solve before the last was feasible.  A diagnosis that
\* ended on an infeasible isolated re-solve returned that group's lines; it
\* returned the interaction lines exactly when all the expected solves were
\* made and were feasible
C18_IsolationOrder ==
  /\ Len(solves) <= Len(ExpectedSolves)
  /\ \A n \in 1 .. Len(solves) :
        /\ solves[n][1] = ExpectedSolves[n]
        /\ n < Len(solves) => solves[n][2] \in Solved
  /\ (pc = "diagnosed" /\ Len(solves) >= 2 /\ solves[Len(solves)][2] = "INFEASIBLE")
       => lines = GroupLines(solves[Len(solves)][1])
  /\ (pc = "diagnosed" /\ solves # <<>>) =>
       (lines = InteractionLines
          <=> /\ Len(solves) = Len(ExpectedSolves)
              /\ \A n \in 1 .. Len(solves) : solves[n][2] \in Solved)

\* a diagnosis whose baseline and minimum-load re-solves were feasible, whose
\* tag re-solve was infeasible, and which returned the tag lines without a
\* placement re-solve
C18_Witness ==
  /\ pc = "diagnosed"
  /\ Len(solves) = 3
  /\ solves[2] = <<OnlyMinClasses, "FEASIBLE">>
  /\ solves[3] = <<OnlyTagLimits, "INFEASIBLE">>
  /\ lines = TagLimitLines

\* every group but the teacher hard limits
NoTeacherLimitsFlags == [DefaultFlags EXCEPT !.enable_teacher_constraints = FALSE]

\* the full model is proven infeasible and is feasible once the teacher weekly
\* caps and unavailable periods are dropped
InfeasibleByTeacherLimitsOnly ==
  /\ status = "INFEASIBLE"
  /\ flags = DefaultFlags
  /\ ~ ConfigError(inp, NoTeacherLimitsFlags)
  /\ Solutions(inp, NoTeacherLimitsFlags) # {}

ScenarioC ==
  /\ calendar = <<5, 5>>
  /\ ClassesOf(inp) = {"c1", "c2"}
  /\ \A c \in ClassesOf(inp) :
        /\ Cardinality(SubjectsOf(inp, c)) = 1
        /\ \A s \in SubjectsOf(inp, c) :
              /\ Subj(inp, c, s).teachers = {"T1"}
              /\ Subj(inp, c, s).periods_per_week = 5
              /\ Subj(inp, c, s).min_contiguous_periods = 1
              /\ Subj(inp, c, s).max_contiguous_periods = 1
              /\ Subj(inp, c, s).tags = <<>>
  /\ inp.min_classes_per_week = {}
  /\ inp.min_classes_per_week_by_class = <<>>
  /\ inp.max_periods_per_day_by_tag = <<>>
  /\ inp.teacher_max_periods_per_week = <<>>

\* the statement of C20 as written: for the scenario the static checks end the
\* diagnosis with a line on the teacher's no-overlap capacity
C20_ScenarioCReportedAtPrecheck ==
  (ScenarioC /\ pc # "diagnose") =>
    /\ pc = "diagnosed"
    /\ solves = <<>>
    /\ \E n \in DOMAIN lines : lines[n][1] = "teacher_load_exceeds_no_overlap"

\* C20: for two classes sharing T1, each with one subject of 5 weekly periods
\* and contiguous range [1,1] on a 5 x 5 calendar, the static checks report
\* nothing (10 periods of T1 fit 25 slots) in either teaching mode, and the
\* diagnosis goes on to its baseline solve with no line written
C20_ScenarioCPassesPrecheck ==
  (ScenarioC /\ pc # "diagnose") =>
    /\ pc = "baseline"
    /\ lines = <<>>
    /\ solves = <<>>

\* the scenario after its static checks, on the way to the baseline solve
C20_Witness ==
  /\ ScenarioC
  /\ pc = "baseline"
  /\ lines = <<>>

\* the weekly load of every class fits the calendar and no blocked period,
\* allowed start, fixed session, teacher cap or unavailable period is set
LoadFitsWithoutPlacementOrTeacherLimits ==
  /\ \A c \in ClassesOf(inp) : ~ LoadExceedsSlots(c)
  /\ \A c \in ClassesOf(inp) : inp.specs[c].blocked_periods = {}
  /\ \A cs \in ClassSubjects(inp) :
        /\ Subj(inp, cs[1], cs[2]).allowed_starts = {}
        /\ Subj(inp, cs[1], cs[2]).fixed_sessions = <<>>
  /\ inp.teacher_max_periods_per_week = <<>>
  /\ inp.teacher_unavailable_periods = <<>>

\* the statement of C21 as written: such an input is never reported INFEASIBLE
C21_FeasibleWhenLoadFits ==
  (pc = "returned" /\ LoadFitsWithoutPlacementOrTeacherLimits)
    => status # "INFEASIBLE"

\* no tag cap and no minimum load is set, every subject may be given in single
\* periods, and no teacher teaches in two classes
SinglePeriodsAndOwnTeachers ==
  /\ inp.max_periods_per_day_by_tag = <<>>
  /\ inp.min_classes_per_week = {}
  /\ inp.min_classes_per_week_by_class = <<>>
  /\ \A cs \in ClassSubjects(inp) : Subj(inp, cs[1], cs[2]).min_contiguous_periods = 1
  /\ \A x \in ClassSubjects(inp), y \in ClassSubjects(inp) :
        x[1] # y[1] =>
          Subj(inp, x[1], x[2]).teachers \cap Subj(inp, y[1], y[2]).teachers = {}

\* C21: an input whose classes' weekly loads each fit the calendar, without
\* blocked periods, allowed starts, fixed sessions, teacher caps, unavailable
\* periods, tag caps or minimum loads, whose subjects all allow single
\* periods and whose classes share no teacher, is never reported INFEASIBLE
C21_FeasibleWhenLoadFitsAndNothingShared ==
  (/\ pc = "returned"
   /\ LoadFitsWithoutPlacementOrTeacherLimits
   /\ SinglePeriodsAndOwnTeachers)
    => status # "INFEASIBLE"

\* a solved week of two classes with a teacher each, whose loads together
\* exceed the slots of the week
C21_Witness ==
  /\ pc = "returned"
  /\ flags = DefaultFlags
  /\ status \in Solved
  /\ LoadFitsWithoutPlacementOrTeacherLimits
  /\ SinglePeriodsAndOwnTeachers
  /\ ClassesOf(inp) = {"c1", "c2"}
  /\ Cardinality(asg.occ) > NumDays * NumPeriods

\* sum over (class, subject, day) of max(0, blocks starting that day - 1)
RepetitionPenalty ==
  LET starts(c, s, d) == Cardinality({k \in asg.y : k[1] = c /\ k[2] = s /\ k[3] = d})
      over(n) == IF n > 1 THEN n - 1 ELSE 0
  IN SumOver([csd \in ClassSubjects(inp) \X Days |->
                over(starts(csd[1][1], csd[1][2], csd[2]))],
             ClassSubjects(inp) \X Days)

\* the (teacher, day, period) slots in which a teacher with a non-empty set of
\* preferred periods is occupied in a period outside the set
OutOfPreferenceSlots ==
  {tdp \in (DOMAIN inp.teacher_preferred_periods) \X Days \X Periods :
     /\ inp.teacher_preferred_periods[tdp[1]] # {}
     /\ tdp[3] \notin inp.teacher_preferred_periods[tdp[1]]
     /\ \E k \in asg.occ_subj_teacher :
           k[3] = tdp[1] /\ k[4] = tdp[2] /\ k[5] = tdp[3]}

\* C22: after a call with the teacher preferences enabled, the objective value
\* reported with a status OPTIMAL or FEASIBLE is 10 x (the repetition penalty
\* of the returned assignment) + 1 x (its out-of-preference slots), and it is
\* absent for every other status
C22_ObjectiveValue ==
  (pc = "returned" /\ flags.enable_teacher_preferences) =>
    IF status \in Solved
      THEN objective_value = 10 * RepetitionPenalty + Cardinality(OutOfPreferenceSlots)
      ELSE objective_value = "None"

\* a FEASIBLE result with an out-of-preference slot whose reported objective
\* value lies above the value of its assignment
C22_Witness ==
  /\ pc = "returned"
  /\ flags = DefaultFlags
  /\ status = "FEASIBLE"
  /\ OutOfPreferenceSlots # {}
  /\ objective_value > 10 * RepetitionPenalty + Cardinality(OutOfPreferenceSlots)

\* the flags with the teacher preferences switched the other way
PreferencesToggled ==
  [flags EXCEPT !.enable_teacher_preferences = ~ flags.enable_teacher_preferences]

\* C23: every assignment of the start, occupancy and teacher variables that
\* satisfies the enabled hard constraints leaves values of day_count, excess
\* and teacher_occ within their declared domains, and the compiled model has
\* a solution with the teacher preferences enabled exactly when it has one
\* with them disabled (stated where the call returned without a verdict, for
\* every assignment the solver could have found)
C23_FeasibilityIndependentOfObjective ==
  (pc = "returned" /\ status = "UNKNOWN") =>
    /\ \A a \in HardSolutions(inp, flags) :
          /\ PenaltyVariables(inp, flags, a)
          /\ PenaltyVariables(inp, PreferencesToggled, a)
    /\ Feasible(inp, flags) <=> Feasible(inp, PreferencesToggled)
    /\ Feasible(inp, flags) <=> HardSolutions(inp, flags) # {}

\* a call with the preferences enabled for which some assignment satisfying
\* the hard constraints has two starts of a subject on one day and a teacher
\* outside the preferred periods
C23_Witness ==
  /\ pc = "returned"
  /\ status = "UNKNOWN"
  /\ flags = DefaultFlags
  /\ \E a \in HardSolutions(inp, flags) :
        /\ \E cs \in ClassSubjects(inp), d \in Days :
              excess(inp, a, cs[1], cs[2], d) > 0
        /\ penalties_teacher_preference(inp, flags, a) # {}

\* the subjects whose sessions can only last the whole day
WholeDaySubjects ==
  {cs \in ClassSubjects(inp) :
     /\ Subj(inp, cs[1], cs[2]).min_contiguous_periods = NumPeriods
     /\ Subj(inp, cs[1], cs[2]).max_contiguous_periods = NumPeriods}

\* the days on which subject s of class c occupies some period
DaysOfSubject(c, s) == {d \in Days : \E p \in Periods : <<c, s, d, p>> \in asg.occ_subj}

\* C24: in every solved assignment a subject with min_contiguous_periods =
\* max_contiguous_periods = NumPeriods occupies every period of each day on
\* which it runs, and no other subject of its class occupies a period of
\* that day
C24_WholeDaySubject ==
  (pc = "returned" /\ status \in Solved) =>
    \A cs \in WholeDaySubjects : \A d \in DaysOfSubject(cs[1], cs[2]) :
       \A p \in Periods :
          /\ <<cs[1], cs[2], d, p>> \in asg.occ_subj
          /\ \A s \in SubjectsOf(inp, cs[1]) \ {cs[2]} :
                <<cs[1], s, d, p>> \notin asg.occ_subj

\* a solved timetable in which a whole-day subject runs and another subject
\* of the same class is scheduled too
C24_Witness ==
  /\ pc = "returned"
  /\ status \in Solved
  /\ \E cs \in WholeDaySubjects :
        /\ DaysOfSubject(cs[1], cs[2]) # {}
        /\ \E s \in SubjectsOf(inp, cs[1]) \ {cs[2]} : DaysOfSubject(cs[1], s) # {}

\* some call of solve_timetable made by the diagnosis would raise
ReSolveConfigError ==
  \E f \in {BaselineFlags, MinClassesFlags, TagLimitFlags, PlacementFlags} :
     ConfigError(inp, f)

AllocatedPeriods(t, c, s) ==
  LET per_teacher == compute_teacher_allocation_periods(asg).per_teacher
  IN IF t \in DOMAIN per_teacher /\ <<c, s>> \in DOMAIN per_teacher[t]
       THEN per_teacher[t][<<c, s>>]
       ELSE 0

\* C26: for every solved assignment the per-teacher projection gives each
\* reported teacher a weekly total equal to the number of (class, subject,
\* day, period) slots the teacher is occupied in and to the sum of the
\* teacher's per-(class, subject) counts; each listed teacher of an all_of
\* subject has the count periods_per_week for it, and the counts of the listed
\* teachers of an any_of subject sum to periods_per_week
C26_TeacherAllocation ==
  (pc = "returned" /\ status \in Solved) =>
    LET alloc == compute_teacher_allocation_periods(asg)
    IN /\ DOMAIN alloc.totals = DOMAIN alloc.per_teacher
       /\ \A t \in DOMAIN alloc.totals :
             /\ alloc.totals[t]
                  = Cardinality({<<k[1], k[2], k[4], k[5]>> :
                                   k \in {x \in asg.occ_subj_teacher : x[3] = t}})
             /\ alloc.totals[t]
                  = SumOver(alloc.per_teacher[t], DOMAIN alloc.per_teacher[t])
       /\ \A cs \in ClassSubjects(inp) :
             LET subj == Subj(inp, cs[1], cs[2])
             IN IF mode(subj) = "all_of"
                  THEN \A t \in subj.teachers :
                          AllocatedPeriods(t, cs[1], cs[2]) = subj.periods_per_week
                  ELSE SumOver([t \in subj.teachers |-> AllocatedPeriods(t, cs[1], cs[2])],
                               subj.teachers) = subj.periods_per_week

\* a solved week in which two teachers take one period each of an any_of
\* subject and one of them teaches another class in the other period of the
\* same day
C26_Witness ==
  /\ pc = "returned"
  /\ status \in Solved
  /\ mode(Subj(inp, "c1", "s1")) = "any_of"
  /\ AllocatedPeriods("T1", "c1", "s1") = 1
  /\ AllocatedPeriods("T2", "c1", "s1") = 1
  /\ AllocatedPeriods("T1", "c2", "s1") = 1
  /\ compute_teacher_allocation_periods(asg).totals["T1"] = 2
  /\ \E d \in Days : \A p \in Periods :
        \E k \in asg.occ_subj_teacher : k[3] = "T1" /\ k[4] = d /\ k[5] = p

\* C27: a request to the solve endpoint with a valid input whose model is
\* solved is answered with HTTP 200 and a body with the keys status,
\* objective_value and payload
C27_SolvedResponseHasPayload ==
  (pc = "returned" /\ flags = DefaultFlags /\ status \in Solved) =>
    /\ ServerSolvedResponse.status_code = 200
    /\ {"status", "objective_value", "payload"} \subseteq ServerSolvedResponse.keys

\* a top-level solve proven optimal, answered by the endpoint with 500
C27_Witness ==
  /\ pc = "returned"
  /\ flags = DefaultFlags
  /\ status = "OPTIMAL"
  /\ asg.occ # {}
  /\ ServerSolvedResponse.status_code = 500

\* the same-day repetition penalty of the assignment a
RepetitionOf(a) ==
  SumOver([csd \in ClassSubjects(inp) \X Days |->
             excess(inp, a, csd[1][1], csd[1][2], csd[2])],
          ClassSubjects(inp) \X Days)

\* the teacher-preference penalty of the assignment a
PreferenceOf(a) == Cardinality(penalties_teacher_preference(inp, flags, a))

MinClassesReSolves == {i \in 1 .. Len(solves) : solves[i][1] = MinClassesFlags}

\* C29: once the necessary-condition checks have passed and the baseline
\* re-solve was solved, the model with the minimum loads enabled has a
\* solution and its compilation raises nothing; so the minimum-load re-solve
\* never ends INFEASIBLE, and the diagnosis names the minimum loads as the
\* failing group only after a re-solve that ended UNKNOWN
C29_MinClassesNeverProvenInfeasible ==
  /\ pc = "min" =>
        /\ ~ ConfigError(inp, MinClassesFlags)
        /\ Feasible(inp, MinClassesFlags)
  /\ \A i \in MinClassesReSolves : solves[i][2] # "INFEASIBLE"
  /\ (pc = "diagnosed" /\ Len(lines) >= 1 /\ lines[1] = MinClassesLines[1]) =>
        solves[Len(solves)] = <<MinClassesFlags, "UNKNOWN">>

\* a diagnosis that names the minimum loads after its re-solve ended UNKNOWN,
\* for a class whose minimum equals the periods it schedules
C29_Witness ==
  /\ pc = "diagnosed"
  /\ lines = MinClassesLines
  /\ solves[Len(solves)] = <<MinClassesFlags, "UNKNOWN">>
  /\ \E c \in ClassesOf(inp) : required_min(inp, c) = {RequiredPeriods(c)}

RECURSIVE ListedOnce(_)
\* the tags of a tag list, each once
ListedOnce(tags) ==
  IF tags = <<>> THEN <<>>
  ELSE IF Head(tags) \in Range(Tail(tags)) THEN ListedOnce(Tail(tags))
  ELSE <<Head(tags)>> \o ListedOnce(Tail(tags))

\* the input with every subject's tags listed once
TagsListedOnce ==
  [inp EXCEPT !.specs =
     [c \in ClassesOf(inp) |->
        [inp.specs[c] EXCEPT !.subjects =
           [s \in SubjectsOf(inp, c) |->
              [Subj(inp, c, s) EXCEPT !.tags = ListedOnce(Subj(inp, c, s).tags)]]]]]

\* some subject lists a tag more than once
SomeTagRepeated ==
  \E cs \in ClassSubjects(inp) :
     ListedOnce(Subj(inp, cs[1], cs[2]).tags) # Subj(inp, cs[1], cs[2]).tags

\* C30: a period occupied by a subject counts once toward the daily limit of
\* a tag of the subject, however often the subject's tag list names the tag:
\* with the tag caps enabled the model has the same solutions as the model
\* of the input with every tag listed once, and the necessary-condition
\* checks give the same reasons for both
C30_RepeatedTagCountsOnce ==
  (pc = "returned" /\ flags.enable_tag_limits /\ status \in {"UNKNOWN", "INFEASIBLE"}) =>
    /\ Solutions(inp, flags) = Solutions(TagsListedOnce, flags)
    /\ precheck(inp, NumDays, NumPeriods) = precheck(TagsListedOnce, NumDays, NumPeriods)

\* a model proven infeasible whose subject names the capped tag twice, while
\* the necessary-condition checks pass and the model with the tag listed once
\* has a solution
C30_Witness ==
  /\ pc = "returned"
  /\ flags = DefaultFlags
  /\ status = "INFEASIBLE"
  /\ SomeTagRepeated
  /\ precheck(inp, NumDays, NumPeriods) = <<>>
  /\ Feasible(TagsListedOnce, flags)

=============================================================================
